---- MODULE Spec2Model ----
(***************************************************************************)
(* Order lifecycle of the storefront server (src/unnamed/part_003): the    *)
(* order collections, the move endpoint, the cancellation workflow, the    *)
(* return workflow, the stock ledger with its reservations, walk-in sales  *)
(* and the customer's view of their orders.                                *)
(*                                                                         *)
(* Every handler is an async function; each awaited database call is one   *)
(* atomic step, and the code between two awaits runs with it.  A request's *)
(* arrival, its validation and its first database call form its first      *)
(* step (the handler holds no state before that call).  Handlers of        *)
(* different requests interleave at their awaits.                          *)
(*                                                                         *)
(* Database calls on the order and request collections are taken to        *)
(* complete (they return a count, they do not throw); an append to the     *)
(* notification collection may throw.                                      *)
(***************************************************************************)
EXTENDS Integers, Sequences, FiniteSets, TLC

\* ObjectIds the database hands out during one run.
MaxId == 3
\* Requests that can be in flight at the same time.
NumSlots == 2
\* Products in the catalogue, the largest stock of a product, the largest
\* quantity a request names, and the largest number of items in a request.
NumProducts == 2
MaxStock == 5
MaxQuantity == 3
MaxBatch == 2

VARIABLES
    orders,                 \* collection name -> set of order documents
    cancellationRequests,   \* the CancellationRequests collection
    staffNotifications,     \* the StaffNotifications collection, in insertion order
    nextId,                 \* the next ObjectId the database assigns
    calls,                  \* request slot -> the handler's position and locals
    returnRequests,         \* the ReturnRequests collection
    returnedRecords,        \* the archived return records of ReturnedOrders
    userNotifications,      \* the UserNotifications collection, in insertion order
    products,               \* the Products collection: _id -> stockQuantity
    stockReservations,      \* the StockReservations collection
    userAddresses,          \* the UserAddresses collection
    authCodes               \* the AuthCodes collection

vars ==
    <<orders, cancellationRequests, staffNotifications, nextId, calls,
      returnRequests, returnedRecords, userNotifications, products,
      stockReservations, userAddresses, authCodes>>

\* The stores only the account handlers write.
accountStores == <<userAddresses, authCodes>>

\* The stores only the return workflow writes.
returnStores == <<returnRequests, returnedRecords, userNotifications>>

Slots == 1..NumSlots

PendingOrders == "PendingOrders"
AcceptedOrders == "AcceptedOrders"
DeliveredOrders == "DeliveredOrders"
DeniedOrders == "DeniedOrders"
ReturnedOrders == "ReturnedOrders"
CancelledOrders == "CancelledOrders"
WalkInOrders == "WalkInOrders"

Collections ==
    {PendingOrders, AcceptedOrders, DeliveredOrders, DeniedOrders,
     ReturnedOrders, CancelledOrders, WalkInOrders}

\* The value of an absent field / a null.
Null == "null"

\* Number(a) for an identifier, Null where isNaN(a).  An identifier is a
\* string; the number 7 is written "#7" to keep it apart from the string "7".
Number(a) ==
    CASE a = "7" -> "#7"
      [] a = "#7" -> "#7"
      [] OTHER -> Null

\* String(a)
String(a) == IF a = "#7" THEN "7" ELSE a

\* new Date(): the clock is not followed, every timestamp a handler writes is
\* this one value.  Only orderDate, which the order views sort by, is a tick.
Date == "Date"

\* An order document.  orderNumber is the business key a checkout assigns
\* once; copies of the document keep it while _id changes.  Fields a document
\* does not have are Null; orderDate is the tick of the checkout.
NoDoc ==
    [_id |-> 0, orderNumber |-> 0, status |-> "", displayStatus |-> "",
     itemsordered |-> <<>>, total |-> 0, paymentMethod |-> "",
     cancellationRequestId |-> 0, userId |-> "", email |-> "", fullName |-> "",
     orderDate |-> 0, updatedAt |-> Null, lastModifiedBy |-> Null,
     approvedAt |-> Null, deliveredAt |-> Null, deniedAt |-> Null,
     denialReason |-> Null, returnedAt |-> Null, returnReason |-> Null,
     returnImage |-> Null, returnProcessedBy |-> Null, payment |-> Null]

\* Sample checkout requests: one line paid by e-wallet with no status sent,
\* the same with the status a migrated order carries, and an empty cart with
\* nothing paid.
Checkouts ==
    {[status |-> "", itemsordered |-> <<"hammer">>, total |-> 150,
      paymentMethod |-> "gcash", userId |-> "u1",
      email |-> "a@x", fullName |-> "Ana"],
     [status |-> "Pending", itemsordered |-> <<"hammer">>, total |-> 150,
      paymentMethod |-> "gcash", userId |-> "u1",
      email |-> "a@x", fullName |-> "Ana"],
     [status |-> "", itemsordered |-> <<>>, total |-> 0, paymentMethod |-> "",
      userId |-> "u1", email |-> "a@x", fullName |-> "Ana"]}

NoRequest ==
    [_id |-> 0, originalOrderId |-> 0, orderNumber |-> 0, itemsordered |-> <<>>,
     paymentMethod |-> Null, originalOrderTotal |-> 0, originalOrderStatus |-> "",
     status |-> "", sourceCollection |-> "", userId |-> Null,
     userIdString |-> Null, userIdNumber |-> Null, customerName |-> "",
     customerEmail |-> ""]

\* A document of ReturnRequests.
NoReturnRequest ==
    [_id |-> 0, originalOrderId |-> 0, orderNumber |-> 0, returnType |-> "",
     returnImage |-> Null, status |-> "", sourceCollection |-> ""]

\* A request slot with no handler running.  logged: a catch block around a
\* notification has written its console.error; error, available, requested:
\* the error message of a stock response and the quantities it names;
\* stockBefore: the stock of every product when the request arrived;
\* validationResults, allValid: the locals and the response of validate-stock;
\* userId, email, fullName, orders: the keys an order view is asked with and
\* the entries gathered;
\* bodyType, reservationId, expiresInMinutes: the body of a reserve-stock
\* request as it was sent; expiresAt: the time its response names.
\* A document of UserAddresses; id is the identifier the client gave the
\* address ("" when it gave none), userId and email are Null when absent.
NoAddress ==
    [_id |-> 0, id |-> "", userId |-> Null, email |-> Null, isDefault |-> FALSE]

\* A document of AuthCodes.
NoCode ==
    [_id |-> 0, email |-> "", verificationCode |-> 0, expiresAt |-> 0,
     used |-> FALSE, attempts |-> 0, maxAttempts |-> 0]

Idle ==
    [pc |-> "idle", op |-> "", orderId |-> 0, toCollection |-> "",
     source |-> "", target |-> "", order |-> NoDoc, insertedId |-> 0,
     action |-> "", requestId |-> 0, request |-> NoRequest,
     returnType |-> "", returnImage |-> "", returnRequest |-> NoReturnRequest,
     denialReason |-> "", returnReason |-> "",
     validationResults |-> <<>>, allValid |-> FALSE,
     reservationId |-> "", expiresAt |-> 0, bodyType |-> "",
     expiresInMinutes |-> [type |-> "undefined", value |-> 0],
     userId |-> "", email |-> "", fullName |-> "", orders |-> <<>>,
     logged |-> FALSE, updates |-> <<>>, i |-> 0,
     error |-> "", available |-> 0, requested |-> 0, stockBefore |-> <<>>,
     address |-> NoAddress, codeEntry |-> NoCode, code |-> 0, now |-> 0,
     status |-> 0, success |-> FALSE, newId |-> 0]

\* collection.findOne({ _id }) : the document, or NoDoc for null.
FindOne(coll, id) ==
    IF \E d \in orders[coll] : d._id = id
    THEN CHOOSE d \in orders[coll] : d._id = id
    ELSE NoDoc

\* collection.deleteOne({ _id }) : the collection afterwards.
DeleteOne(docs, id) == {d \in docs : d._id # id}

\* Mutant: the delete is taken to have removed a document whatever it found.
DeletedCountUnchecked(docs, id) == 1

\* deleteResult.deletedCount
DeletedCount(docs, id) == Cardinality({d \in docs : d._id = id})

\* res.status(code).json(...) : the handler ends, its response stays readable
\* in the slot until the slot is released.
Respond(p, code, ok, id) ==
    [calls EXCEPT ![p] =
        [Idle EXCEPT !.pc = "done", !.op = calls[p].op,
                     !.status = code, !.success = ok, !.newId = id]]

\* The same for a response sent by a request's first step.
RespondAtOnce(p, c, code, ok, id) ==
    [calls EXCEPT ![p] =
        [Idle EXCEPT !.pc = "done", !.op = c.op,
                     !.status = code, !.success = ok, !.newId = id]]

\* A request arrives on a free slot; the slots are interchangeable, so it
\* takes the first free one.
MayStart(p) ==
    /\ calls[p].pc = "idle"
    /\ \A q \in Slots : q < p => calls[q].pc # "idle"

Init ==
    /\ orders = [c \in Collections |-> {}]
    /\ cancellationRequests = {}
    /\ staffNotifications = <<>>
    /\ nextId = 1
    /\ calls = [p \in Slots |-> Idle]
    /\ returnRequests = {}
    /\ returnedRecords = {}
    /\ userNotifications = <<>>
    /\ products = <<>>
    /\ stockReservations = {}
    /\ userAddresses = {}
    /\ authCodes = {}

\* The connection of an answered request closes.
Release(p) ==
    /\ calls[p].pc = "done"
    /\ calls' = [calls EXCEPT ![p] = Idle]
    /\ UNCHANGED <<accountStores, orders, cancellationRequests, staffNotifications, nextId, returnStores, products, stockReservations>>

----------------------------------------------------------------------------
\* POST /api/orders

CreateOrder(p, orderData) ==
    /\ MayStart(p)
    /\ nextId <= MaxId
    /\ orders' = [orders EXCEPT ![PendingOrders] = @ \cup
          {[NoDoc EXCEPT !._id = nextId, !.orderNumber = nextId,
                         !.status = IF orderData.status = "" THEN "active"
                                     ELSE orderData.status,
                         !.itemsordered = orderData.itemsordered,
                         !.total = orderData.total,
                         !.paymentMethod = orderData.paymentMethod,
                         !.userId = orderData.userId,
                         !.email = orderData.email,
                         !.fullName = orderData.fullName,
                         !.orderDate = nextId,
                         !.updatedAt = Date]}]
    /\ nextId' = nextId + 1
    /\ calls' = RespondAtOnce(p, [Idle EXCEPT !.op = "create"], 200, TRUE, nextId)
    /\ UNCHANGED <<accountStores, cancellationRequests, staffNotifications, returnStores, products, stockReservations>>

----------------------------------------------------------------------------
\* POST /api/orders/move

\* Mutant: the name "cancelled" is mapped as well.
collectionMappingCancelled(name) ==
    CASE name = "orders" -> PendingOrders
      [] name = "pending" -> PendingOrders
      [] name = "accepted" -> AcceptedOrders
      [] name = "delivered" -> DeliveredOrders
      [] name = "denied" -> DeniedOrders
      [] name = "returned" -> ReturnedOrders
      [] name = "cancelled" -> CancelledOrders
      [] OTHER -> ""

\* collectionMapping[name], "" for undefined.
collectionMapping(name) ==
    CASE name = "orders" -> PendingOrders
      [] name = "pending" -> PendingOrders
      [] name = "accepted" -> AcceptedOrders
      [] name = "delivered" -> DeliveredOrders
      [] name = "denied" -> DeniedOrders
      [] name = "returned" -> ReturnedOrders
      [] OTHER -> ""

\* a field the request may leave out: the value sent, or what the copy had.
IfGiven(sent, had) == IF sent = "" THEN had ELSE sent

\* The switch on toCollection: the copy's status, displayStatus and the
\* stamps of the target; there is no case for "orders".  Then updatedAt and
\* lastModifiedBy.  c holds the request's toCollection, denialReason,
\* returnReason and returnImage.
updatedOrder(order, c) ==
    LET switched ==
          CASE c.toCollection = "pending" ->
                [order EXCEPT !.status = "pending", !.displayStatus = "pending"]
            [] c.toCollection = "accepted" ->
                [order EXCEPT !.status = "approved", !.displayStatus = "approved",
                              !.approvedAt = Date]
            [] c.toCollection = "delivered" ->
                [order EXCEPT !.status = "delivered",
                              !.displayStatus = "delivered",
                              !.deliveredAt = Date]
            [] c.toCollection = "denied" ->
                [order EXCEPT !.status = "denied", !.displayStatus = "denied",
                              !.deniedAt = Date,
                              !.denialReason = IfGiven(c.denialReason, @)]
            [] c.toCollection = "returned" ->
                [order EXCEPT !.status = "returned", !.displayStatus = "returned",
                              !.returnedAt = Date,
                              !.returnReason = IfGiven(c.returnReason, @),
                              !.returnImage = IfGiven(c.returnImage, @),
                              !.returnProcessedBy = "staff"]
            [] OTHER -> order
    IN [switched EXCEPT !.updatedAt = Date, !.lastModifiedBy = "staff"]

\* Mutant: the copy keeps the _id of the document that was read.
MoveKeepsId(order) == order._id

\* The _id of the document the move inserts: the source's _id is deleted from
\* the copy, so the database assigns a new one.
MoveInsertedId(order) == nextId

\* Mutant: the source document is deleted before the copy is written.
MoveInsertAfterDelete(p) ==
    LET c == calls[p]
        id == MoveInsertedId(c.order)
    IN
    /\ c.pc = "move_insert"
    /\ nextId <= MaxId
    /\ orders' = [orders EXCEPT ![c.source] = DeleteOne(@, c.orderId)]
    /\ nextId' = nextId + 1
    /\ calls' = [calls EXCEPT ![p] = [c EXCEPT !.pc = "move_delete",
                                               !.insertedId = id]]
    /\ UNCHANGED <<accountStores, cancellationRequests, staffNotifications, returnStores, products, stockReservations>>

\* The checks a move request passes before it writes: the status of the
\* response that turns it away, 200 if none does.
MoveCheck(body) ==
    IF \/ body.orderId = 0 \/ body.operation = ""
       \/ body.fromCollection = "" \/ body.toCollection = ""
    THEN 400
    ELSE IF \/ collectionMapping(body.fromCollection) = ""
            \/ collectionMapping(body.toCollection) = ""
    THEN 400
    ELSE IF FindOne(collectionMapping(body.fromCollection), body.orderId) = NoDoc
    THEN 404
    ELSE 200

\* Validation, the mapping of the names, and findOne in the source.  body is
\* req.body: orderId, operation, fromCollection, toCollection, denialReason,
\* returnReason, returnImage, "" or 0 for a field that was not sent.
MoveRequest(p, body) ==
    LET c == [Idle EXCEPT !.op = "move", !.orderId = body.orderId,
                          !.toCollection = body.toCollection,
                          !.denialReason = body.denialReason,
                          !.returnReason = body.returnReason,
                          !.returnImage = body.returnImage,
                          !.source = collectionMapping(body.fromCollection),
                          !.target = collectionMapping(body.toCollection)]
    IN
    /\ MayStart(p)
    /\ IF MoveCheck(body) # 200
       THEN calls' = RespondAtOnce(p, c, MoveCheck(body), FALSE, 0)
       ELSE calls' = [calls EXCEPT ![p] =
                [c EXCEPT !.pc = "move_insert",
                          !.order = FindOne(c.source, body.orderId)]]
    /\ UNCHANGED <<accountStores, orders, cancellationRequests, staffNotifications, nextId, returnStores, products, stockReservations>>

\* A move request that names its operation and sends no reason and no image.
MoveFind(p, orderId, fromCollection, toCollection) ==
    MoveRequest(p, [orderId |-> orderId, operation |-> "move",
                    fromCollection |-> fromCollection,
                    toCollection |-> toCollection, denialReason |-> "",
                    returnReason |-> "", returnImage |-> ""])

\* targetCollection.insertOne(updatedOrder)
MoveInsert(p) ==
    LET c == calls[p]
        id == MoveInsertedId(c.order)
    IN
    /\ c.pc = "move_insert"
    /\ nextId <= MaxId
    /\ orders' = [orders EXCEPT ![c.target] = @ \cup
          {[updatedOrder(c.order, c) EXCEPT !._id = id]}]
    /\ nextId' = nextId + 1
    /\ calls' = [calls EXCEPT ![p] = [c EXCEPT !.pc = "move_delete",
                                               !.insertedId = id]]
    /\ UNCHANGED <<accountStores, cancellationRequests, staffNotifications, returnStores, products, stockReservations>>

\* sourceCollection.deleteOne({ _id: orderId }) and, when it removed the
\* document, the success response.
MoveDelete(p) ==
    LET c == calls[p] IN
    /\ c.pc = "move_delete"
    /\ orders' = [orders EXCEPT ![c.source] = DeleteOne(@, c.orderId)]
    /\ IF DeletedCount(orders[c.source], c.orderId) = 0
       THEN calls' = [calls EXCEPT ![p] = [c EXCEPT !.pc = "move_rollback"]]
       ELSE calls' = Respond(p, 200, TRUE, c.insertedId)
    /\ UNCHANGED <<accountStores, cancellationRequests, staffNotifications, nextId, returnStores, products, stockReservations>>

\* Mutant: the failed move throws without removing its copy.
MoveRollbackForgets(p) ==
    /\ calls[p].pc = "move_rollback"
    /\ calls' = Respond(p, 500, FALSE, 0)
    /\ UNCHANGED <<accountStores, orders, cancellationRequests, staffNotifications, nextId, returnStores, products, stockReservations>>

\* targetCollection.deleteOne({ _id: insertedId }), then the throw and the
\* catch block's 500.
MoveRollback(p) ==
    LET c == calls[p] IN
    /\ c.pc = "move_rollback"
    /\ orders' = [orders EXCEPT ![c.target] = DeleteOne(@, c.insertedId)]
    /\ calls' = Respond(p, 500, FALSE, 0)
    /\ UNCHANGED <<accountStores, cancellationRequests, staffNotifications, nextId, returnStores, products, stockReservations>>

----------------------------------------------------------------------------
\* POST /api/orders/walkin

\* The check of fullName and itemsordered, then insertOne into WalkInOrders.
\* itemsType is "array" when itemsordered is an array.
CreateWalkInOrder(p, orderData) ==
    LET c == [Idle EXCEPT !.op = "walkin"] IN
    /\ MayStart(p)
    /\ IF orderData.fullName = "" \/ orderData.itemsType # "array"
       THEN /\ calls' = RespondAtOnce(p, c, 400, FALSE, 0)
            /\ UNCHANGED <<orders, nextId>>
       ELSE /\ nextId <= MaxId
            /\ orders' = [orders EXCEPT ![WalkInOrders] = @ \cup
                  {[NoDoc EXCEPT !._id = nextId, !.orderNumber = nextId,
                                 !.status = IF orderData.status = ""
                                             THEN "completed"
                                             ELSE orderData.status,
                                 !.displayStatus = "completed",
                                 !.itemsordered = orderData.itemsordered,
                                 !.total = orderData.total,
                                 !.paymentMethod = orderData.paymentMethod,
                                 !.userId = orderData.userId,
                                 !.email = orderData.email,
                                 !.fullName = orderData.fullName,
                                 !.orderDate = nextId,
                                 !.updatedAt = Date]}]
            /\ nextId' = nextId + 1
            /\ calls' = RespondAtOnce(p, c, 200, TRUE, nextId)
    /\ UNCHANGED <<accountStores, cancellationRequests, staffNotifications, returnStores,
                   products, stockReservations>>

----------------------------------------------------------------------------
\* GET /api/orders/:userId

\* queryConditions: the pairs of a field and the value it must have.  v holds
\* the userId of the path and the email and fullName of the query string.
queryConditions(v) ==
    (IF v.userId = "by-email" THEN {}
     ELSE IF Number(v.userId) # Null
     THEN {<<"userId", String(v.userId)>>, <<"userId", Number(v.userId)>>}
     ELSE {<<"userId", String(v.userId)>>})
    \cup (IF v.email # "" THEN {<<"email", v.email>>} ELSE {})
    \cup (IF v.fullName # "" THEN {<<"fullName", v.fullName>>} ELSE {})

\* cancellationQueryConditions
cancellationQueryConditions(v) ==
    (IF v.userId = "by-email" THEN {}
     ELSE IF Number(v.userId) # Null
     THEN {<<"userId", Number(v.userId)>>, <<"userIdString", String(v.userId)>>,
           <<"userIdNumber", Number(v.userId)>>}
     ELSE {<<"userId", String(v.userId)>>, <<"userIdString", String(v.userId)>>})
    \cup (IF v.email # "" THEN {<<"customerEmail", v.email>>} ELSE {})
    \cup (IF v.fullName # "" THEN {<<"customerName", v.fullName>>} ELSE {})

\* Mutant: every condition must hold.
MatchesAll(d, conditions) == \A c \in conditions : d[c[1]] = c[2]

\* $match on a document: { $or: conditions }, the one condition if there is
\* one, and {} (every document) if there is none.
Matches(d, conditions) ==
    conditions = {} \/ \E c \in conditions : d[c[1]] = c[2]

\* formattedOrders.sort((a, b) => db - da): newest first, entries of the same
\* date in the order they had.
RECURSIVE SortByDate(_)
SortByDate(list) ==
    IF list = <<>> THEN <<>>
    ELSE LET first == CHOOSE k \in 1..Len(list) :
                        /\ \A j \in 1..Len(list) : list[j].date <= list[k].date
                        /\ \A j \in 1..(k - 1) : list[j].date < list[k].date
             rest == [j \in 1..(Len(list) - 1) |->
                         IF j < first THEN list[j] ELSE list[j + 1]]
         IN <<list[first]>> \o SortByDate(rest)

\* aggregate([{ $match: userQuery }, { $sort: { createdAt: -1 } }]) on an
\* order collection, each document mapped to the entry the response carries:
\* status || fallback, the collection's name, and the date.
RECURSIVE Aggregate(_, _, _)
Aggregate(docs, name, fallback) ==
    IF docs = {} THEN <<>>
    ELSE LET d == CHOOSE d \in docs : \A e \in docs : e.orderDate <= d.orderDate
         IN <<[_id |-> d._id, orderNumber |-> d.orderNumber,
               status |-> IF d.status = "" THEN fallback ELSE d.status,
               collection |-> name, date |-> d.orderDate,
               hasPendingCancellation |-> FALSE]>>
            \o Aggregate(docs \ {d}, name, fallback)

\* normalizeCancellationStatus
\* Mutant: the stored status is passed on as it is.
normalizeCancellationStatusKept(status) == status

normalizeCancellationStatus(status) ==
    CASE status \in {"pending_review", "pending"} -> "cancel_requested"
      [] status = "approved" -> "cancel_approved"
      [] status = "rejected" -> "cancel_rejected"
      [] status = "processed" -> "cancel_processed"
      [] status = "" -> "cancel_requested"
      [] OTHER -> status

\* The same on CancellationRequests, sorted by submittedAt, which is the tick
\* the request's _id was handed out.
RECURSIVE AggregateRequests(_)
AggregateRequests(docs) ==
    IF docs = {} THEN <<>>
    ELSE LET d == CHOOSE d \in docs : \A e \in docs : e._id <= d._id
         IN <<[_id |-> d._id, orderNumber |-> d.orderNumber,
               status |-> normalizeCancellationStatus(d.status),
               collection |-> "cancellation", date |-> d._id,
               hasPendingCancellation |->
                   normalizeCancellationStatus(d.status) = "cancel_requested"]>>
            \o AggregateRequests(docs \ {d})

\* The orders of collection c that the view of slot record v asks for.
Matching(v, c) == {d \in orders[c] : Matches(d, queryConditions(v))}

\* The all-staff check, then the aggregate on PendingOrders.
GetOrdersPending(p, keys) ==
    LET c == [Idle EXCEPT !.op = "view", !.userId = keys.userId,
                          !.email = keys.email, !.fullName = keys.fullName]
    IN
    /\ MayStart(p)
    /\ calls' = [calls EXCEPT ![p] =
         IF keys.userId = "all-staff"
         THEN [c EXCEPT !.pc = "done", !.status = 400]
         ELSE [c EXCEPT !.pc = "view_accepted",
                        !.orders = Aggregate(Matching(c, PendingOrders),
                                             "pending", "pending")]]
    /\ UNCHANGED <<accountStores, orders, cancellationRequests, staffNotifications, nextId,
                   returnStores, products, stockReservations>>

\* The aggregate on AcceptedOrders.
GetOrdersAccepted(p) ==
    LET c == calls[p] IN
    /\ c.pc = "view_accepted"
    /\ calls' = [calls EXCEPT ![p] =
         [c EXCEPT !.pc = "view_delivered",
                   !.orders = @ \o Aggregate(Matching(c, AcceptedOrders),
                                             "accepted", "approved")]]
    /\ UNCHANGED <<accountStores, orders, cancellationRequests, staffNotifications, nextId,
                   returnStores, products, stockReservations>>

\* The aggregate on DeliveredOrders.
GetOrdersDelivered(p) ==
    LET c == calls[p] IN
    /\ c.pc = "view_delivered"
    /\ calls' = [calls EXCEPT ![p] =
         [c EXCEPT !.pc = "view_walkin",
                   !.orders = @ \o Aggregate(Matching(c, DeliveredOrders),
                                             "delivered", "delivered")]]
    /\ UNCHANGED <<accountStores, orders, cancellationRequests, staffNotifications, nextId,
                   returnStores, products, stockReservations>>

\* The aggregate on WalkInOrders.
GetOrdersWalkIn(p) ==
    LET c == calls[p] IN
    /\ c.pc = "view_walkin"
    /\ calls' = [calls EXCEPT ![p] =
         [c EXCEPT !.pc = "view_debug",
                   !.orders = @ \o Aggregate(Matching(c, WalkInOrders),
                                             "walkin", "completed")]]
    /\ UNCHANGED <<accountStores, orders, cancellationRequests, staffNotifications, nextId,
                   returnStores, products, stockReservations>>

\* pendingCollection.find({}), whose result only feeds a debug list.
GetOrdersDebug(p) ==
    /\ calls[p].pc = "view_debug"
    /\ calls' = [calls EXCEPT ![p] = [@ EXCEPT !.pc = "view_cancellation"]]
    /\ UNCHANGED <<accountStores, orders, cancellationRequests, staffNotifications, nextId,
                   returnStores, products, stockReservations>>

\* The aggregate on CancellationRequests, then the lists combined, formatted
\* and sorted, and the response.
GetOrdersCancellation(p) ==
    LET c == calls[p]
        requests == {r \in cancellationRequests :
                        Matches(r, cancellationQueryConditions(c))}
    IN
    /\ c.pc = "view_cancellation"
    /\ calls' = [calls EXCEPT ![p] =
         [Idle EXCEPT !.pc = "done", !.op = "view", !.userId = c.userId,
                      !.email = c.email, !.fullName = c.fullName,
                      !.status = 200, !.success = TRUE,
                      !.orders = SortByDate(c.orders
                                            \o AggregateRequests(requests))]]
    /\ UNCHANGED <<accountStores, orders, cancellationRequests, staffNotifications, nextId,
                   returnStores, products, stockReservations>>

----------------------------------------------------------------------------
\* PUT /api/orders/:orderId/verify-payment

VerifyPayment(p, orderId, verified) ==
    /\ MayStart(p)
    /\ orders' = [orders EXCEPT ![PendingOrders] =
          {IF d._id = orderId /\ verified
           THEN [d EXCEPT !.status = "confirmed"] ELSE d : d \in @}]
    /\ calls' = IF FindOne(PendingOrders, orderId) = NoDoc
                THEN RespondAtOnce(p, [Idle EXCEPT !.op = "verify"], 404, FALSE, 0)
                ELSE RespondAtOnce(p, [Idle EXCEPT !.op = "verify"], 200, TRUE, 0)
    /\ UNCHANGED <<accountStores, cancellationRequests, staffNotifications, nextId, returnStores, products, stockReservations>>

----------------------------------------------------------------------------
\* PUT /api/orders/:orderId/payment

\* The response, with the order id the request named.
Answer(p, op, orderId, code, ok) ==
    [calls EXCEPT ![p] =
        [Idle EXCEPT !.pc = "done", !.op = op, !.orderId = orderId,
                     !.status = code, !.success = ok]]

UpdatePayment(p, orderId, paymentUpdates) ==
    /\ MayStart(p)
    /\ orders' = [orders EXCEPT ![PendingOrders] =
          {IF d._id = orderId
           THEN [d EXCEPT !.payment = paymentUpdates] ELSE d : d \in @}]
    /\ calls' = IF FindOne(PendingOrders, orderId) = NoDoc
                THEN Answer(p, "payment", orderId, 404, FALSE)
                ELSE Answer(p, "payment", orderId, 200, TRUE)
    /\ UNCHANGED <<accountStores, cancellationRequests, staffNotifications, nextId, returnStores, products, stockReservations>>

\* Mutant: the order is looked for, and updated, in every collection.
UpdateStatusAnywhere(p, orderId, status) ==
    /\ MayStart(p)
    /\ orders' = [c \in Collections |->
          {IF d._id = orderId /\ status # ""
           THEN [d EXCEPT !.status = status] ELSE d : d \in orders[c]}]
    /\ calls' = IF status = ""
                THEN Answer(p, "status", orderId, 400, FALSE)
                ELSE IF \A c \in Collections : FindOne(c, orderId) = NoDoc
                THEN Answer(p, "status", orderId, 404, FALSE)
                ELSE Answer(p, "status", orderId, 200, TRUE)
    /\ UNCHANGED <<accountStores, cancellationRequests, staffNotifications, nextId, returnStores, products, stockReservations>>

\* PUT /api/orders/:orderId/status: the handler registered first answers
\* every request, so the one registered later for the same path never runs.
UpdateStatus(p, orderId, status) ==
    /\ MayStart(p)
    /\ orders' = [orders EXCEPT ![PendingOrders] =
          {IF d._id = orderId /\ status # ""
           THEN [d EXCEPT !.status = status] ELSE d : d \in @}]
    /\ calls' = IF status = ""
                THEN Answer(p, "status", orderId, 400, FALSE)
                ELSE IF FindOne(PendingOrders, orderId) = NoDoc
                THEN Answer(p, "status", orderId, 404, FALSE)
                ELSE Answer(p, "status", orderId, 200, TRUE)
    /\ UNCHANGED <<accountStores, cancellationRequests, staffNotifications, nextId, returnStores, products, stockReservations>>

----------------------------------------------------------------------------
\* POST /api/orders/accepted and POST /api/orders/delivered

\* Mutant: the status the request carries is kept.
acceptedOrderAsSent(orderData) ==
    [orderData EXCEPT !.approvedAt = Date, !.updatedAt = Date]

\* { ...orderData, status: 'approved', approvedAt, updatedAt }
acceptedOrder(orderData) ==
    [orderData EXCEPT !.status = "approved", !.approvedAt = Date,
                      !.updatedAt = Date]

\* { ...orderData, status: 'delivered', deliveredAt, updatedAt }
deliveredOrder(orderData) ==
    [orderData EXCEPT !.status = "delivered", !.deliveredAt = Date,
                      !.updatedAt = Date]

PostAccepted(p, orderData) ==
    /\ MayStart(p)
    /\ nextId <= MaxId
    /\ orders' = [orders EXCEPT ![AcceptedOrders] = @ \cup
          {[acceptedOrder(orderData) EXCEPT !._id = nextId]}]
    /\ nextId' = nextId + 1
    /\ calls' = RespondAtOnce(p, [Idle EXCEPT !.op = "accepted"], 200, TRUE, nextId)
    /\ UNCHANGED <<accountStores, cancellationRequests, staffNotifications, returnStores, products, stockReservations>>

PostDelivered(p, orderData) ==
    /\ MayStart(p)
    /\ nextId <= MaxId
    /\ orders' = [orders EXCEPT ![DeliveredOrders] = @ \cup
          {[deliveredOrder(orderData) EXCEPT !._id = nextId]}]
    /\ nextId' = nextId + 1
    /\ calls' = RespondAtOnce(p, [Idle EXCEPT !.op = "delivered"], 200, TRUE, nextId)
    /\ UNCHANGED <<accountStores, cancellationRequests, staffNotifications, returnStores, products, stockReservations>>

----------------------------------------------------------------------------
\* POST /api/user-addresses and PUT /api/user-addresses/:id/default

\* !isNaN(userId) ? Number(userId) : userId
userIdStored(sent) == IF Number(sent) # Null THEN Number(sent) ELSE sent

\* The filter { ...userQuery, isDefault: true }: every key the query has
\* must equal the document's field.  "" and Null stand for a key left out.
userQuery(a, sentUserId, email) ==
    /\ sentUserId \notin {"", Null} => a.userId = sentUserId
    /\ email \notin {"", Null} => a.email = email
    /\ a.isDefault

\* updateMany({ ...userQuery, isDefault: true }, { $set: { isDefault: false } })
UnsetDefaults(sentUserId, email) ==
    {IF userQuery(a, sentUserId, email) THEN [a EXCEPT !.isDefault = FALSE]
     ELSE a : a \in userAddresses}

\* The document the save inserts.
doc(body) ==
    [NoAddress EXCEPT
        !.id = body.addressData.id,
        !.isDefault = body.addressData.isDefault,
        !.userId = IF body.userId = "" THEN Null ELSE userIdStored(body.userId),
        !.email = IF body.email = "" THEN Null ELSE body.email]

\* The request arrives; a default address first unsets the user's other
\* defaults, any other address is inserted at once.
SaveAddress(p, body) ==
    LET c == [Idle EXCEPT !.op = "save_address"] IN
    /\ MayStart(p)
    /\ nextId <= MaxId
    /\ IF body.missing \/ (body.userId = "" /\ body.email = "")
       THEN /\ calls' = RespondAtOnce(p, c, 400, FALSE, 0)
            /\ UNCHANGED <<userAddresses, nextId>>
       ELSE IF body.addressData.isDefault
       THEN /\ userAddresses' =
                  UnsetDefaults(IF body.userId = "" THEN ""
                                ELSE userIdStored(body.userId), body.email)
            /\ calls' = [calls EXCEPT ![p] =
                  [c EXCEPT !.pc = "address_insert", !.address = doc(body)]]
            /\ UNCHANGED nextId
       ELSE /\ userAddresses' = userAddresses \cup
                  {[doc(body) EXCEPT !._id = nextId]}
            /\ nextId' = nextId + 1
            /\ calls' = RespondAtOnce(p, c, 200, TRUE, nextId)
    /\ UNCHANGED <<orders, cancellationRequests, staffNotifications,
                   returnStores, products, stockReservations, authCodes>>

SaveAddressInsert(p) ==
    LET c == calls[p] IN
    /\ c.pc = "address_insert"
    /\ userAddresses' = userAddresses \cup {[c.address EXCEPT !._id = nextId]}
    /\ nextId' = nextId + 1
    /\ calls' = Respond(p, 200, TRUE, nextId)
    /\ UNCHANGED <<orders, cancellationRequests, staffNotifications,
                   returnStores, products, stockReservations, authCodes>>

\* findOne({ id }), then findOne({ _id }) when the id sent has the form of
\* an ObjectId; id.text is the string sent, id.oid the ObjectId it spells,
\* 0 when it spells none.  Of several documents with the id the first
\* inserted is found.
FindAddress(id) ==
    LET byId == {a \in userAddresses : a.id = id.text}
        by_id == {a \in userAddresses : id.oid # 0 /\ a._id = id.oid}
        found == IF byId # {} THEN byId ELSE by_id
    IN IF found = {} THEN NoAddress
       ELSE CHOOSE a \in found : \A b \in found : a._id <= b._id

SetDefaultFind(p, id) ==
    LET c == [Idle EXCEPT !.op = "set_default"] IN
    /\ MayStart(p)
    /\ calls' = IF FindAddress(id) = NoAddress
                THEN RespondAtOnce(p, c, 404, FALSE, 0)
                ELSE [calls EXCEPT ![p] =
                        [c EXCEPT !.pc = "default_unset",
                                  !.address = FindAddress(id)]]
    /\ UNCHANGED <<orders, cancellationRequests, staffNotifications, nextId,
                   returnStores, products, stockReservations, accountStores>>

SetDefaultUnset(p) ==
    LET c == calls[p] IN
    /\ c.pc = "default_unset"
    /\ userAddresses' = UnsetDefaults(c.address.userId, c.address.email)
    /\ calls' = [calls EXCEPT ![p] = [c EXCEPT !.pc = "default_set"]]
    /\ UNCHANGED <<orders, cancellationRequests, staffNotifications, nextId,
                   returnStores, products, stockReservations, authCodes>>

SetDefaultSet(p) ==
    LET c == calls[p] IN
    /\ c.pc = "default_set"
    /\ userAddresses' =
          {IF a._id = c.address._id THEN [a EXCEPT !.isDefault = TRUE] ELSE a :
           a \in userAddresses}
    /\ calls' = Respond(p, 200, TRUE, 0)
    /\ UNCHANGED <<orders, cancellationRequests, staffNotifications, nextId,
                   returnStores, products, stockReservations, authCodes>>

----------------------------------------------------------------------------
\* POST /api/orders/cancel-request

\* String.prototype.toLowerCase on the status values that occur.
toLowerCase(s) ==
    CASE s = "Pending" -> "pending"
      [] s = "Active" -> "active"
      [] s = "Approved" -> "approved"
      [] s = "A@X" -> "a@x"
      [] OTHER -> s

\* POST /api/auth/create-verification-code and POST /api/auth/verify-code

\* The attempts a code entry allows, and the minutes it lives.
MaxAttempts == 5
CodeMinutes == 15

\* The entry a new code is stored as.
codeEntry(email, verificationCode, now) ==
    [NoCode EXCEPT !.email = toLowerCase(email),
                   !.verificationCode = verificationCode,
                   !.expiresAt = now + CodeMinutes,
                   !.maxAttempts = MaxAttempts]

\* The request arrives, a code is drawn, and deleteMany removes the codes of
\* the email.
CreateCodeDelete(p, email, verificationCode, now) ==
    LET c == [Idle EXCEPT !.op = "create_code"] IN
    /\ MayStart(p)
    /\ IF email = ""
       THEN /\ calls' = RespondAtOnce(p, c, 400, FALSE, 0)
            /\ UNCHANGED authCodes
       ELSE /\ authCodes' = {e \in authCodes : e.email # toLowerCase(email)}
            /\ calls' = [calls EXCEPT ![p] =
                  [c EXCEPT !.pc = "code_insert",
                            !.codeEntry = codeEntry(email, verificationCode, now)]]
    /\ UNCHANGED <<orders, cancellationRequests, staffNotifications, nextId,
                   returnStores, products, stockReservations, userAddresses>>

CreateCodeInsert(p) ==
    LET c == calls[p] IN
    /\ c.pc = "code_insert"
    /\ nextId <= MaxId
    /\ authCodes' = authCodes \cup {[c.codeEntry EXCEPT !._id = nextId]}
    /\ nextId' = nextId + 1
    /\ calls' = Respond(p, 200, TRUE, nextId)
    /\ UNCHANGED <<orders, cancellationRequests, staffNotifications,
                   returnStores, products, stockReservations, userAddresses>>

\* findOne({ email, used: false }): of several entries the first inserted.
FindCode(email) ==
    LET found == {e \in authCodes : e.email = toLowerCase(email) /\ ~e.used} IN
    IF found = {} THEN NoCode
    ELSE CHOOSE e \in found : \A f \in found : e._id <= f._id

\* The request arrives and the entry is read; now is the time the checks
\* that follow the read see.
VerifyCodeFind(p, email, code, now) ==
    LET c == [Idle EXCEPT !.op = "verify_code"] IN
    /\ MayStart(p)
    /\ calls' =
         IF email = "" \/ code = 0 THEN RespondAtOnce(p, c, 400, FALSE, 0)
         ELSE IF FindCode(email) = NoCode THEN RespondAtOnce(p, c, 400, FALSE, 0)
         ELSE [calls EXCEPT ![p] =
                  [c EXCEPT !.pc = "code_update", !.codeEntry = FindCode(email),
                            !.code = code, !.now = now]]
    /\ UNCHANGED <<orders, cancellationRequests, staffNotifications, nextId,
                   returnStores, products, stockReservations, accountStores>>

\* The one updateOne the handler makes on the entry it read, and its answer:
\* expired, attempts used up, wrong code, or verified.
VerifyCodeUpdate(p) ==
    LET c == calls[p]
        e == c.codeEntry
        wrong == c.now <= e.expiresAt /\ e.attempts < e.maxAttempts
                 /\ e.verificationCode # c.code
        verified == c.now <= e.expiresAt /\ e.attempts < e.maxAttempts
                    /\ e.verificationCode = c.code
    IN
    /\ c.pc = "code_update"
    /\ authCodes' =
          {IF f._id # e._id THEN f
           ELSE IF wrong THEN [f EXCEPT !.attempts = @ + 1]
           ELSE [f EXCEPT !.used = TRUE] : f \in authCodes}
    /\ calls' = [calls EXCEPT ![p] =
          [Idle EXCEPT !.pc = "done", !.op = "verify_code", !.codeEntry = e,
                       !.code = c.code,
                       !.status = IF verified THEN 200 ELSE 400,
                       !.success = verified]]
    /\ UNCHANGED <<orders, cancellationRequests, staffNotifications, nextId,
                   returnStores, products, stockReservations, userAddresses>>

----------------------------------------------------------------------------
\* Mutant: the status the order carries is not read.
currentStatusDefault(originalOrder) == "pending"

\* originalOrder.status || 'pending'
currentStatus(originalOrder) ==
    IF originalOrder.status = "" THEN "pending" ELSE originalOrder.status

\* Mutant: the status check is missing.
CancellableAlways(originalOrder) == TRUE

\* ['pending', 'active', 'approved'].includes(currentStatus.toLowerCase())
Cancellable(originalOrder) ==
    toLowerCase(currentStatus(originalOrder)) \in {"pending", "active", "approved"}

\* a || null for a string field
OrNull(a) == IF a = "" THEN Null ELSE a

\* Mutant: the request records the order's keys but not its items.
cancellationRequestNoItems(orderId, originalOrder, sourceName) ==
    [NoRequest EXCEPT
        !.originalOrderId = orderId,
        !.orderNumber = originalOrder.orderNumber,
        !.paymentMethod = OrNull(originalOrder.paymentMethod),
        !.originalOrderTotal = originalOrder.total,
        !.originalOrderStatus = currentStatus(originalOrder),
        !.status = "pending_review",
        !.sourceCollection = sourceName,
        !.userId = OrNull(originalOrder.userId),
        !.userIdString = OrNull(String(originalOrder.userId)),
        !.userIdNumber = Number(originalOrder.userId),
        !.customerName = IF originalOrder.fullName = "" THEN "N/A"
                         ELSE originalOrder.fullName,
        !.customerEmail = IF originalOrder.email = "" THEN "N/A"
                          ELSE originalOrder.email]

\* The cancellationRequest object built from the order that was read.
cancellationRequest(orderId, originalOrder, sourceName) ==
    [NoRequest EXCEPT
        !.originalOrderId = orderId,
        !.orderNumber = originalOrder.orderNumber,
        !.itemsordered = originalOrder.itemsordered,
        !.paymentMethod = OrNull(originalOrder.paymentMethod),
        !.originalOrderTotal = originalOrder.total,
        !.originalOrderStatus = currentStatus(originalOrder),
        !.status = "pending_review",
        !.sourceCollection = sourceName,
        !.userId = OrNull(originalOrder.userId),
        !.userIdString = OrNull(String(originalOrder.userId)),
        !.userIdNumber = Number(originalOrder.userId),
        !.customerName = IF originalOrder.fullName = "" THEN "N/A"
                         ELSE originalOrder.fullName,
        !.customerEmail = IF originalOrder.email = "" THEN "N/A"
                          ELSE originalOrder.email]

\* After a findOne that found the order: the status check.
CancelFound(p, c, originalOrder, sourceName) ==
    IF Cancellable(originalOrder)
    THEN [calls EXCEPT ![p] = [c EXCEPT !.pc = "cancel_insert",
                                        !.order = originalOrder,
                                        !.source = sourceName]]
    ELSE RespondAtOnce(p, c, 400, FALSE, 0)

\* Validation and findOne in PendingOrders.
CancelFindPending(p, orderId, reason) ==
    LET c == [Idle EXCEPT !.op = "cancel", !.orderId = orderId] IN
    /\ MayStart(p)
    /\ calls' =
         IF orderId = 0 \/ reason = "" THEN RespondAtOnce(p, c, 400, FALSE, 0)
         ELSE IF FindOne(PendingOrders, orderId) # NoDoc
         THEN CancelFound(p, c, FindOne(PendingOrders, orderId), PendingOrders)
         ELSE [calls EXCEPT ![p] = [c EXCEPT !.pc = "cancel_find_accepted"]]
    /\ UNCHANGED <<accountStores, orders, cancellationRequests, staffNotifications, nextId, returnStores, products, stockReservations>>

\* findOne in AcceptedOrders, the second turn of the loop.
CancelFindAccepted(p) ==
    LET c == calls[p] IN
    /\ c.pc = "cancel_find_accepted"
    /\ calls' =
         IF FindOne(AcceptedOrders, c.orderId) # NoDoc
         THEN CancelFound(p, c, FindOne(AcceptedOrders, c.orderId), AcceptedOrders)
         ELSE Respond(p, 404, FALSE, 0)
    /\ UNCHANGED <<accountStores, orders, cancellationRequests, staffNotifications, nextId, returnStores, products, stockReservations>>

\* cancellationRequestsCollection.insertOne(cancellationRequest)
CancelInsert(p) ==
    LET c == calls[p] IN
    /\ c.pc = "cancel_insert"
    /\ nextId <= MaxId
    /\ cancellationRequests' = cancellationRequests \cup
          {[cancellationRequest(c.orderId, c.order, c.source) EXCEPT !._id = nextId]}
    /\ nextId' = nextId + 1
    /\ calls' = [calls EXCEPT ![p] = [c EXCEPT !.pc = "cancel_delete",
                                               !.insertedId = nextId]]
    /\ UNCHANGED <<accountStores, orders, staffNotifications, returnStores, products, stockReservations>>

\* sourceCollection.collection.deleteOne({ _id: orderId })
\* Mutant: the deleted count is not looked at.
CancelDeleteUnchecked(p) ==
    LET c == calls[p] IN
    /\ c.pc = "cancel_delete"
    /\ orders' = [orders EXCEPT ![c.source] = DeleteOne(@, c.orderId)]
    /\ calls' = [calls EXCEPT ![p] = [c EXCEPT !.pc = "cancel_notify"]]
    /\ UNCHANGED <<accountStores, cancellationRequests, staffNotifications, nextId, returnStores, products, stockReservations>>

CancelDelete(p) ==
    LET c == calls[p] IN
    /\ c.pc = "cancel_delete"
    /\ orders' = [orders EXCEPT ![c.source] = DeleteOne(@, c.orderId)]
    /\ calls' = [calls EXCEPT ![p] = [c EXCEPT !.pc =
          IF DeletedCount(orders[c.source], c.orderId) = 0
          THEN "cancel_rollback" ELSE "cancel_notify"]]
    /\ UNCHANGED <<accountStores, cancellationRequests, staffNotifications, nextId, returnStores, products, stockReservations>>

\* cancellationRequestsCollection.deleteOne({ _id: result.insertedId }), 500.
CancelRollback(p) ==
    LET c == calls[p] IN
    /\ c.pc = "cancel_rollback"
    /\ cancellationRequests' = DeleteOne(cancellationRequests, c.insertedId)
    /\ calls' = Respond(p, 500, FALSE, 0)
    /\ UNCHANGED <<accountStores, orders, staffNotifications, nextId, returnStores, products, stockReservations>>

\* staffNotificationsCollection.insertOne(notification), then the success
\* response.
CancelNotify(p) ==
    LET c == calls[p] IN
    /\ c.pc = "cancel_notify"
    /\ staffNotifications' = Append(staffNotifications,
          [type |-> "cancellation_request", orderId |-> c.orderId,
           requestId |-> c.insertedId])
    /\ calls' = Respond(p, 200, TRUE, c.insertedId)
    /\ UNCHANGED <<accountStores, orders, cancellationRequests, nextId, returnStores, products, stockReservations>>

\* The same insertOne throws: the catch block answers 500.
CancelNotifyFails(p) ==
    LET c == calls[p] IN
    /\ c.pc = "cancel_notify"
    /\ calls' = Respond(p, 500, FALSE, 0)
    /\ UNCHANGED <<accountStores, orders, cancellationRequests, staffNotifications, nextId, returnStores, products, stockReservations>>

----------------------------------------------------------------------------
\* PUT /api/orders/cancellation-request/:requestId

FindRequest(id) ==
    IF \E r \in cancellationRequests : r._id = id
    THEN CHOOSE r \in cancellationRequests : r._id = id
    ELSE NoRequest

\* Mutant: every decision is recorded as an approval.
DecisionStatusApproved(action) == "approved"

\* updateData.status
DecisionStatus(action) == IF action = "approve" THEN "approved" ELSE "rejected"

\* The check of action, and findOne of the request.
DecideFind(p, requestId, action) ==
    LET c == [Idle EXCEPT !.op = "decide", !.requestId = requestId,
                          !.action = action] IN
    /\ MayStart(p)
    /\ calls' =
         IF action \notin {"approve", "reject"} THEN RespondAtOnce(p, c, 400, FALSE, 0)
         ELSE IF FindRequest(requestId) = NoRequest
         THEN RespondAtOnce(p, c, 404, FALSE, 0)
         ELSE [calls EXCEPT ![p] = [c EXCEPT !.pc = "decide_update",
                                             !.request = FindRequest(requestId)]]
    /\ UNCHANGED <<accountStores, orders, cancellationRequests, staffNotifications, nextId, returnStores, products, stockReservations>>

\* updateOne({ _id: requestId }, { $set: updateData }); a rejection answers.
DecideUpdate(p) ==
    LET c == calls[p] IN
    /\ c.pc = "decide_update"
    /\ cancellationRequests' =
          {IF r._id = c.requestId
           THEN [r EXCEPT !.status = DecisionStatus(c.action)] ELSE r :
           r \in cancellationRequests}
    /\ calls' = IF c.action = "approve"
                THEN [calls EXCEPT ![p] = [c EXCEPT !.pc = "decide_find_pending"]]
                ELSE Respond(p, 200, TRUE, 0)
    /\ UNCHANGED <<accountStores, orders, staffNotifications, nextId, returnStores, products, stockReservations>>

\* The approval's loop, first turn: findOne of originalOrderId in PendingOrders.
DecideFindPending(p) ==
    LET c == calls[p]
        originalOrder == FindOne(PendingOrders, c.request.originalOrderId)
    IN
    /\ c.pc = "decide_find_pending"
    /\ calls' = [calls EXCEPT ![p] =
          IF originalOrder # NoDoc
          THEN [c EXCEPT !.pc = "decide_insert", !.order = originalOrder,
                         !.source = PendingOrders]
          ELSE [c EXCEPT !.pc = "decide_find_accepted"]]
    /\ UNCHANGED <<accountStores, orders, cancellationRequests, staffNotifications, nextId, returnStores, products, stockReservations>>

\* Second turn: findOne in AcceptedOrders; nothing found ends the loop.
DecideFindAccepted(p) ==
    LET c == calls[p]
        originalOrder == FindOne(AcceptedOrders, c.request.originalOrderId)
    IN
    /\ c.pc = "decide_find_accepted"
    /\ calls' =
          IF originalOrder # NoDoc
          THEN [calls EXCEPT ![p] =
                   [c EXCEPT !.pc = "decide_insert", !.order = originalOrder,
                             !.source = AcceptedOrders]]
          ELSE Respond(p, 200, TRUE, 0)
    /\ UNCHANGED <<accountStores, orders, cancellationRequests, staffNotifications, nextId, returnStores, products, stockReservations>>

\* cancelledCollection.insertOne(cancelledOrder)
DecideInsert(p) ==
    LET c == calls[p] IN
    /\ c.pc = "decide_insert"
    /\ nextId <= MaxId
    /\ orders' = [orders EXCEPT ![CancelledOrders] = @ \cup
          {[c.order EXCEPT !._id = nextId,
                           !.cancellationRequestId = c.requestId]}]
    /\ nextId' = nextId + 1
    /\ calls' = [calls EXCEPT ![p] = [c EXCEPT !.pc = "decide_delete",
                                               !.insertedId = nextId]]
    /\ UNCHANGED <<accountStores, cancellationRequests, staffNotifications, returnStores, products, stockReservations>>

\* collection.deleteOne({ _id: originalOrderId }), then the success response.
DecideDelete(p) ==
    LET c == calls[p] IN
    /\ c.pc = "decide_delete"
    /\ orders' = [orders EXCEPT ![c.source] =
                     DeleteOne(@, c.request.originalOrderId)]
    /\ calls' = Respond(p, 200, TRUE, 0)
    /\ UNCHANGED <<accountStores, cancellationRequests, staffNotifications, nextId, returnStores, products, stockReservations>>

----------------------------------------------------------------------------
\* POST /api/orders/return-request

\* The collections the submission searches, in the order of its loop.
returnCollections == <<DeliveredOrders, AcceptedOrders, PendingOrders>>

\* The returnRequest object built from the body and the order that was read.
returnRequest(orderId, returnType, returnImage, originalOrder, sourceName) ==
    [NoReturnRequest EXCEPT
        !.originalOrderId = orderId,
        !.orderNumber = originalOrder.orderNumber,
        !.returnType = returnType,
        !.returnImage = OrNull(returnImage),
        !.status = "pending_review",
        !.sourceCollection = sourceName]

\* One turn of the search loop for a handler whose locals are c: the order is
\* found, or the next collection is tried, or the loop ends with a 404.
ReturnSearch(p, c, turn) ==
    LET name == returnCollections[turn]
        originalOrder == FindOne(name, c.orderId)
    IN
    IF originalOrder # NoDoc
    THEN [calls EXCEPT ![p] = [c EXCEPT !.pc = "return_insert",
                                        !.order = originalOrder,
                                        !.source = name]]
    ELSE IF turn < Len(returnCollections)
    THEN [calls EXCEPT ![p] = [c EXCEPT !.pc = "return_find", !.i = turn + 1]]
    ELSE RespondAtOnce(p, c, 404, FALSE, 0)

\* Validation and the first turn of the loop: findOne in DeliveredOrders.
ReturnFindDelivered(p, orderId, returnType, selectedItems, returnImage) ==
    LET c == [Idle EXCEPT !.op = "return", !.orderId = orderId,
                          !.returnType = returnType,
                          !.returnImage = returnImage] IN
    /\ MayStart(p)
    /\ calls' =
         IF orderId = 0 \/ returnType = "" \/ Len(selectedItems) = 0
         THEN RespondAtOnce(p, c, 400, FALSE, 0)
         ELSE ReturnSearch(p, c, 1)
    /\ UNCHANGED <<accountStores, orders, cancellationRequests, staffNotifications, nextId,
                   returnStores, products, stockReservations>>

\* A later turn of the loop: findOne in AcceptedOrders, then in PendingOrders.
ReturnFindNext(p) ==
    LET c == calls[p] IN
    /\ c.pc = "return_find"
    /\ calls' = ReturnSearch(p, c, c.i)
    /\ UNCHANGED <<accountStores, orders, cancellationRequests, staffNotifications, nextId,
                   returnStores, products, stockReservations>>

\* returnRequestsCollection.insertOne(returnRequest)
ReturnInsert(p) ==
    LET c == calls[p] IN
    /\ c.pc = "return_insert"
    /\ nextId <= MaxId
    /\ returnRequests' = returnRequests \cup
          {[returnRequest(c.orderId, c.returnType, c.returnImage, c.order,
                          c.source) EXCEPT !._id = nextId]}
    /\ nextId' = nextId + 1
    /\ calls' = [calls EXCEPT ![p] = [c EXCEPT !.pc = "return_notify",
                                               !.insertedId = nextId]]
    /\ UNCHANGED <<accountStores, orders, cancellationRequests, staffNotifications,
                   returnedRecords, userNotifications, products, stockReservations>>

\* Mutant: the notification is inserted twice.
ReturnNotifyTwice(p) ==
    LET c == calls[p]
        notification == [type |-> "return_request", orderId |-> c.orderId,
                         requestId |-> c.insertedId]
    IN
    /\ c.pc = "return_notify"
    /\ staffNotifications' = staffNotifications \o <<notification, notification>>
    /\ calls' = Respond(p, 200, TRUE, c.insertedId)
    /\ UNCHANGED <<accountStores, orders, cancellationRequests, nextId, returnStores, products, stockReservations>>

\* staffNotificationsCollection.insertOne(notification), then the success
\* response.
ReturnNotify(p) ==
    LET c == calls[p] IN
    /\ c.pc = "return_notify"
    /\ staffNotifications' = Append(staffNotifications,
          [type |-> "return_request", orderId |-> c.orderId,
           requestId |-> c.insertedId])
    /\ calls' = Respond(p, 200, TRUE, c.insertedId)
    /\ UNCHANGED <<accountStores, orders, cancellationRequests, nextId, returnStores, products, stockReservations>>

\* The same insertOne throws: the catch block answers 500.
ReturnNotifyFails(p) ==
    LET c == calls[p] IN
    /\ c.pc = "return_notify"
    /\ calls' = Respond(p, 500, FALSE, 0)
    /\ UNCHANGED <<accountStores, orders, cancellationRequests, staffNotifications, nextId,
                   returnStores, products, stockReservations>>

----------------------------------------------------------------------------
\* PUT /api/orders/return-request/:requestId

\* The legacy collection the decision searches last; no endpoint here writes
\* it, so a findOne in it returns null.
LegacyOrders == "Orders"

\* The collections the decision searches, in the order of its loop.
orderCollections == <<DeliveredOrders, AcceptedOrders, PendingOrders, LegacyOrders>>

\* A return record of ReturnedOrders.
NoArchive ==
    [_id |-> 0, requestId |-> 0, status |-> "", action |-> "",
     staffDecisionImage |-> Null, originalOrderId |-> 0, orderNumber |-> 0,
     customerImage |-> Null, staffDecision |-> "",
     originalOrderCollection |-> Null]

FindReturnRequest(id) ==
    IF \E r \in returnRequests : r._id = id
    THEN CHOOSE r \in returnRequests : r._id = id
    ELSE NoReturnRequest

\* decisionStatus
decisionStatus(action) == IF action = "approve" THEN "accepted" ELSE "rejected"

\* Mutant: the record takes the image sent with the decision for the customer's.
archivedRecordStaffImage(requestObjectId, action, returnImage, request, name) ==
    [NoArchive EXCEPT
        !.requestId = requestObjectId,
        !.status = decisionStatus(action),
        !.action = action,
        !.staffDecisionImage = OrNull(returnImage),
        !.originalOrderId = request.originalOrderId,
        !.orderNumber = request.orderNumber,
        !.customerImage = OrNull(returnImage),
        !.staffDecision = decisionStatus(action),
        !.originalOrderCollection = OrNull(name)]

\* The archivedRecord object; returnImage is the image sent with the decision.
archivedRecord(requestObjectId, action, returnImage, request, name) ==
    [NoArchive EXCEPT
        !.requestId = requestObjectId,
        !.status = decisionStatus(action),
        !.action = action,
        !.staffDecisionImage = OrNull(returnImage),
        !.originalOrderId = request.originalOrderId,
        !.orderNumber = request.orderNumber,
        !.customerImage = request.returnImage,
        !.staffDecision = decisionStatus(action),
        !.originalOrderCollection = OrNull(name)]

\* The check of action, and findOne of the return request.
ReturnDecideFind(p, requestId, action, returnImage) ==
    LET c == [Idle EXCEPT !.op = "return_decide", !.requestId = requestId,
                          !.action = action, !.returnImage = returnImage] IN
    /\ MayStart(p)
    /\ calls' =
         IF action \notin {"approve", "reject"} THEN RespondAtOnce(p, c, 400, FALSE, 0)
         ELSE IF FindReturnRequest(requestId) = NoReturnRequest
         THEN RespondAtOnce(p, c, 404, FALSE, 0)
         ELSE [calls EXCEPT ![p] =
                  [c EXCEPT !.pc = "decide_find_order", !.i = 1,
                            !.returnRequest = FindReturnRequest(requestId)]]
    /\ UNCHANGED <<accountStores, orders, cancellationRequests, staffNotifications, nextId,
                   returnStores, products, stockReservations>>

\* One turn of the loop over orderCollections: findOne of originalOrderId.
\* The loop ends on the first document found, or after the last collection
\* with originalOrder null.
ReturnDecideFindOrder(p) ==
    LET c == calls[p]
        name == orderCollections[c.i]
        found == IF name = LegacyOrders THEN NoDoc
                 ELSE FindOne(name, c.returnRequest.originalOrderId)
    IN
    /\ c.pc = "decide_find_order"
    /\ calls' = [calls EXCEPT ![p] =
          IF found # NoDoc
          THEN [c EXCEPT !.pc = "decide_archive", !.order = found, !.source = name]
          ELSE IF c.i < Len(orderCollections)
          THEN [c EXCEPT !.i = c.i + 1]
          ELSE [c EXCEPT !.pc = "decide_archive"]]
    /\ UNCHANGED <<accountStores, orders, cancellationRequests, staffNotifications, nextId,
                   returnStores, products, stockReservations>>

\* returnedOrdersCollection.insertOne(archivedRecord)
ReturnDecideArchive(p) ==
    LET c == calls[p] IN
    /\ c.pc = "decide_archive"
    /\ returnedRecords' = returnedRecords \cup
          {[archivedRecord(c.requestId, c.action, c.returnImage, c.returnRequest,
                           c.source) EXCEPT !._id = nextId]}
    /\ nextId' = nextId + 1
    /\ calls' = [calls EXCEPT ![p] = [c EXCEPT !.pc = "decide_remove",
                                               !.insertedId = nextId]]
    /\ UNCHANGED <<accountStores, orders, cancellationRequests, staffNotifications,
                   returnRequests, userNotifications, products, stockReservations>>

\* returnRequest.userId || originalOrder?.userId || null: the request record
\* has no userId, an order that was not found has none either.
userId(c) == IF c.order = NoDoc THEN "" ELSE c.order.userId

\* Where the handler goes once the request and, for an approval, the order
\* are removed: the user notification if userId is set, else the staff one.
NotifyFrom(c) == IF userId(c) # "" THEN "decide_user_notify" ELSE "decide_staff_notify"

\* Mutant: the order that was located is removed whatever the decision.
ReturnDecideRemoveAlways(p) ==
    LET c == calls[p] IN
    /\ c.pc = "decide_remove"
    /\ returnRequests' = DeleteOne(returnRequests, c.requestId)
    /\ calls' = [calls EXCEPT ![p] = [c EXCEPT !.pc =
          IF DeletedCount(returnRequests, c.requestId) = 0 THEN "decide_rollback"
          ELSE IF c.order # NoDoc THEN "decide_delete_order"
          ELSE NotifyFrom(c)]]
    /\ UNCHANGED <<accountStores, orders, cancellationRequests, staffNotifications, nextId,
                   returnedRecords, userNotifications, products, stockReservations>>

\* returnRequestsCollection.deleteOne({ _id: requestObjectId })
\* Mutant: the deleted count is not looked at.
ReturnDecideRemoveUnchecked(p) ==
    LET c == calls[p] IN
    /\ c.pc = "decide_remove"
    /\ returnRequests' = DeleteOne(returnRequests, c.requestId)
    /\ calls' = [calls EXCEPT ![p] = [c EXCEPT !.pc =
          IF c.action = "approve" /\ c.order # NoDoc THEN "decide_delete_order"
          ELSE NotifyFrom(c)]]
    /\ UNCHANGED <<accountStores, orders, cancellationRequests, staffNotifications, nextId,
                   returnedRecords, userNotifications, products, stockReservations>>

ReturnDecideRemove(p) ==
    LET c == calls[p] IN
    /\ c.pc = "decide_remove"
    /\ returnRequests' = DeleteOne(returnRequests, c.requestId)
    /\ calls' = [calls EXCEPT ![p] = [c EXCEPT !.pc =
          IF DeletedCount(returnRequests, c.requestId) = 0 THEN "decide_rollback"
          ELSE IF c.action = "approve" /\ c.order # NoDoc THEN "decide_delete_order"
          ELSE NotifyFrom(c)]]
    /\ UNCHANGED <<accountStores, orders, cancellationRequests, staffNotifications, nextId,
                   returnedRecords, userNotifications, products, stockReservations>>

\* returnedOrdersCollection.deleteOne({ _id: archiveResult.insertedId }), then
\* the throw and the catch block's 500.
ReturnDecideRollback(p) ==
    LET c == calls[p] IN
    /\ c.pc = "decide_rollback"
    /\ returnedRecords' = DeleteOne(returnedRecords, c.insertedId)
    /\ calls' = Respond(p, 500, FALSE, 0)
    /\ UNCHANGED <<accountStores, orders, cancellationRequests, staffNotifications, nextId,
                   returnRequests, userNotifications, products, stockReservations>>

\* sourceCollection.deleteOne({ _id: originalOrderId }) of an approval that
\* located the order.
ReturnDecideDeleteOrder(p) ==
    LET c == calls[p] IN
    /\ c.pc = "decide_delete_order"
    /\ orders' = [orders EXCEPT ![c.source] =
                     DeleteOne(@, c.returnRequest.originalOrderId)]
    /\ calls' = [calls EXCEPT ![p] = [c EXCEPT !.pc = NotifyFrom(c)]]
    /\ UNCHANGED <<accountStores, cancellationRequests, staffNotifications, nextId,
                   returnStores, products, stockReservations>>

\* userNotificationsCollection.insertOne(userNotification)
ReturnDecideUserNotify(p) ==
    LET c == calls[p] IN
    /\ c.pc = "decide_user_notify"
    /\ userNotifications' = Append(userNotifications,
          [userId |-> userId(c),
           type |-> IF c.action = "approve" THEN "order_return_approved"
                    ELSE "order_return_rejected",
           orderId |-> c.returnRequest.originalOrderId,
           requestId |-> c.requestId])
    /\ calls' = [calls EXCEPT ![p] = [c EXCEPT !.pc = "decide_staff_notify"]]
    /\ UNCHANGED <<accountStores, orders, cancellationRequests, staffNotifications, nextId,
                   returnRequests, returnedRecords, products, stockReservations>>

\* The same insertOne throws: the catch block logs and the handler goes on.
ReturnDecideUserNotifyFails(p) ==
    LET c == calls[p] IN
    /\ c.pc = "decide_user_notify"
    /\ calls' = [calls EXCEPT ![p] = [c EXCEPT !.pc = "decide_staff_notify",
                                               !.logged = TRUE]]
    /\ UNCHANGED <<accountStores, orders, cancellationRequests, staffNotifications, nextId,
                   returnStores, products, stockReservations>>

\* staffNotificationsCollection.insertOne(staffNotification), then the
\* success response.
ReturnDecideStaffNotify(p) ==
    LET c == calls[p] IN
    /\ c.pc = "decide_staff_notify"
    /\ staffNotifications' = Append(staffNotifications,
          [type |-> IF c.action = "approve" THEN "return_processed_approved"
                    ELSE "return_processed_rejected",
           orderId |-> c.returnRequest.originalOrderId,
           requestId |-> c.requestId])
    /\ calls' = Respond(p, 200, TRUE, c.insertedId)
    /\ UNCHANGED <<accountStores, orders, cancellationRequests, nextId, returnStores, products, stockReservations>>

\* Mutant: a throw of the staff notification reaches the outer catch block.
ReturnDecideStaffNotifyThrows(p) ==
    /\ calls[p].pc = "decide_staff_notify"
    /\ calls' = Respond(p, 500, FALSE, 0)
    /\ UNCHANGED <<accountStores, orders, cancellationRequests, staffNotifications, nextId,
                   returnStores, products, stockReservations>>

\* The same insertOne throws: the catch block logs, the success response
\* follows.
ReturnDecideStaffNotifyFails(p) ==
    LET c == calls[p] IN
    /\ c.pc = "decide_staff_notify"
    /\ calls' = Respond(p, 200, TRUE, c.insertedId)
    /\ UNCHANGED <<accountStores, orders, cancellationRequests, staffNotifications, nextId,
                   returnStores, products, stockReservations>>

----------------------------------------------------------------------------
\* The stock ledger: PUT /api/products/bulk-stock and
\* POST /api/products/restore-stock

\* One element of updates / items.  type is typeof quantity; an id of 0 is a
\* missing id.
Valid(item) == item.id # 0 /\ item.type = "number"

\* collection.findOne({ _id }) on Products finds a document.
Exists(id) == id \in DOMAIN products

\* The stock values followed: up to MaxStock, and down to one below zero.
Followed(stockQuantity) == stockQuantity >= -1 /\ stockQuantity <= MaxStock

\* Mutant: a request for all that is left is refused as well.
InsufficientOrEqual(stockQuantity, quantity) == stockQuantity <= quantity

\* existingProduct.stockQuantity < update.quantity
Insufficient(stockQuantity, quantity) == stockQuantity < quantity

\* A response of a stock endpoint: the status, the error message, and the
\* quantities an "Insufficient stock" message names.  The request's items
\* and the index of the item the loop stopped at stay readable.
StockDone(c, code, ok, error, available, requested) ==
    [Idle EXCEPT !.pc = "done", !.op = c.op, !.updates = c.updates, !.i = c.i,
                 !.status = code, !.success = ok, !.error = error,
                 !.available = available, !.requested = requested]

\* The head of the loop of bulk-stock at index i: the end of the loop and the
\* success response, or the validation of updates[i], or its findOne issued.
BulkHead(c, i) ==
    IF i > Len(c.updates)
    THEN StockDone(c, 200, TRUE, "", 0, 0)
    ELSE IF ~Valid(c.updates[i])
    THEN StockDone([c EXCEPT !.i = i], 400, FALSE,
                   "Each update must have id and quantity", 0, 0)
    ELSE [c EXCEPT !.pc = "bulk_find", !.i = i]

\* The findOne of updates[c.i] has returned: 404 if there is no product, 400
\* if its stock is short, else the updateOne is issued.
BulkFound(c) ==
    LET update == c.updates[c.i] IN
    IF ~Exists(update.id)
    THEN StockDone(c, 404, FALSE, "Product not found", 0, 0)
    ELSE IF Insufficient(products[update.id], update.quantity)
    THEN StockDone(c, 400, FALSE, "Insufficient stock",
                   products[update.id], update.quantity)
    ELSE [c EXCEPT !.pc = "bulk_update", !.available = products[update.id]]

\* The checks of the body, then the first turn of the loop up to the result
\* of its findOne.
BulkStockFind(p, body) ==
    LET c == [Idle EXCEPT !.op = "bulk", !.updates = body.updates,
                          !.stockBefore = products] IN
    /\ MayStart(p)
    /\ calls' = [calls EXCEPT ![p] =
         IF body.type = "undefined"
         THEN StockDone(c, 400, FALSE, "Updates field is required", 0, 0)
         ELSE IF body.type # "array"
         THEN StockDone(c, 400, FALSE, "Updates must be an array", 0, 0)
         ELSE IF BulkHead(c, 1).pc = "bulk_find" THEN BulkFound(BulkHead(c, 1))
         ELSE BulkHead(c, 1)]
    /\ UNCHANGED <<accountStores, orders, cancellationRequests, staffNotifications, nextId,
                   returnStores, products, stockReservations>>

\* The findOne of a later turn.
BulkStockFindNext(p) ==
    /\ calls[p].pc = "bulk_find"
    /\ calls' = [calls EXCEPT ![p] = BulkFound(calls[p])]
    /\ UNCHANGED <<accountStores, orders, cancellationRequests, staffNotifications, nextId,
                   returnStores, products, stockReservations>>

\* updateOne({ _id }, { $inc: { stockQuantity: -update.quantity } }), then the
\* loop goes on.
BulkStockUpdate(p) ==
    LET c == calls[p]
        update == c.updates[c.i]
    IN
    /\ c.pc = "bulk_update"
    /\ Followed(products[update.id] - update.quantity)
    /\ products' = [products EXCEPT ![update.id] = @ - update.quantity]
    /\ calls' = [calls EXCEPT ![p] = BulkHead(c, c.i + 1)]
    /\ UNCHANGED <<accountStores, orders, cancellationRequests, staffNotifications, nextId,
                   returnStores, stockReservations>>

\* The head of the loop of restore-stock at index i.
RestoreHead(c, i) ==
    IF i > Len(c.updates)
    THEN StockDone(c, 200, TRUE, "", 0, 0)
    ELSE IF ~Valid(c.updates[i])
    THEN StockDone([c EXCEPT !.i = i], 400, FALSE,
                   "Each item must have id and quantity", 0, 0)
    ELSE [c EXCEPT !.pc = "restore_find", !.i = i]

\* Mutant: a missing product ends the request with 404.
RestoreFoundAborts(c) ==
    IF ~Exists(c.updates[c.i].id)
    THEN StockDone(c, 404, FALSE, "Product not found", 0, 0)
    ELSE [c EXCEPT !.pc = "restore_update"]

\* The findOne of items[c.i] has returned: a missing product is skipped, else
\* the updateOne is issued.
RestoreFound(c) ==
    IF ~Exists(c.updates[c.i].id)
    THEN RestoreHead(c, c.i + 1)
    ELSE [c EXCEPT !.pc = "restore_update"]

\* The check of the body, then the first turn of the loop up to the result of
\* its findOne.
RestoreStockFind(p, body) ==
    LET c == [Idle EXCEPT !.op = "restore", !.updates = body.updates,
                          !.stockBefore = products] IN
    /\ MayStart(p)
    /\ calls' = [calls EXCEPT ![p] =
         IF body.type # "array"
         THEN StockDone(c, 400, FALSE, "Items array is required", 0, 0)
         ELSE IF RestoreHead(c, 1).pc = "restore_find"
         THEN RestoreFound(RestoreHead(c, 1))
         ELSE RestoreHead(c, 1)]
    /\ UNCHANGED <<accountStores, orders, cancellationRequests, staffNotifications, nextId,
                   returnStores, products, stockReservations>>

\* The findOne of a later turn.
RestoreStockFindNext(p) ==
    /\ calls[p].pc = "restore_find"
    /\ calls' = [calls EXCEPT ![p] = RestoreFound(calls[p])]
    /\ UNCHANGED <<accountStores, orders, cancellationRequests, staffNotifications, nextId,
                   returnStores, products, stockReservations>>

\* updateOne({ _id }, { $inc: { stockQuantity: item.quantity } }), then the
\* loop goes on.
RestoreStockUpdate(p) ==
    LET c == calls[p]
        item == c.updates[c.i]
    IN
    /\ c.pc = "restore_update"
    /\ Followed(products[item.id] + item.quantity)
    /\ products' = [products EXCEPT ![item.id] = @ + item.quantity]
    /\ calls' = [calls EXCEPT ![p] = RestoreHead(c, c.i + 1)]
    /\ UNCHANGED <<accountStores, orders, cancellationRequests, staffNotifications, nextId,
                   returnStores, stockReservations>>

----------------------------------------------------------------------------
\* PUT /api/products/:id/stock

\* The check of the quantity, then updateOne({ _id }, { $set: { stockQuantity:
\* quantity } }) and the answer by matchedCount.  item is the id of the path
\* and the quantity of the body with its typeof.
SetStock(p, item) ==
    LET c == [Idle EXCEPT !.op = "set", !.updates = <<item>>,
                          !.stockBefore = products] IN
    /\ MayStart(p)
    /\ IF item.type # "number" \/ item.quantity < 0
       THEN /\ calls' = [calls EXCEPT ![p] =
                    StockDone(c, 400, FALSE, "Invalid quantity", 0, 0)]
            /\ UNCHANGED products
       ELSE IF ~Exists(item.id)
       THEN /\ calls' = [calls EXCEPT ![p] =
                    StockDone(c, 404, FALSE, "Product not found", 0, 0)]
            /\ UNCHANGED products
       ELSE /\ calls' = [calls EXCEPT ![p] = StockDone(c, 200, TRUE, "", 0, 0)]
            /\ products' = [products EXCEPT ![item.id] = item.quantity]
    /\ UNCHANGED <<accountStores, orders, cancellationRequests, staffNotifications, nextId,
                   returnStores, stockReservations>>

----------------------------------------------------------------------------
\* POST /api/products/validate-stock

\* The response of validate-stock: a stock response that carries allValid and
\* the results when it is the success response.
ValidateDone(c, code, ok, error) ==
    [StockDone(c, code, ok, error, 0, 0) EXCEPT
        !.validationResults = IF ok THEN c.validationResults ELSE <<>>,
        !.allValid = ok /\ c.allValid]

\* The head of the loop at index i: the end of the loop and the response, or
\* the validation of items[i], or its findOne issued.
ValidateHead(c, i) ==
    IF i > Len(c.updates)
    THEN ValidateDone(c, 200, TRUE, "")
    ELSE IF ~Valid(c.updates[i])
    THEN ValidateDone([c EXCEPT !.i = i], 400, FALSE,
                      "Each item must have id and quantity")
    ELSE [c EXCEPT !.pc = "validate_find", !.i = i]

\* Mutant: an item that asks for all that is left is not valid.
validationResultStrict(item) ==
    IF ~Exists(item.id)
    THEN [id |-> item.id, requestedQuantity |-> item.quantity,
          availableStock |-> 0, valid |-> FALSE, error |-> "Product not found"]
    ELSE [id |-> item.id, requestedQuantity |-> item.quantity,
          availableStock |-> products[item.id],
          valid |-> products[item.id] > item.quantity,
          error |-> IF products[item.id] > item.quantity THEN Null
                    ELSE "Insufficient stock"]

\* The entry pushed for items[c.i] once its findOne has returned.
validationResult(item) ==
    IF ~Exists(item.id)
    THEN [id |-> item.id, requestedQuantity |-> item.quantity,
          availableStock |-> 0, valid |-> FALSE, error |-> "Product not found"]
    ELSE [id |-> item.id, requestedQuantity |-> item.quantity,
          availableStock |-> products[item.id],
          valid |-> products[item.id] >= item.quantity,
          error |-> IF products[item.id] >= item.quantity THEN Null
                    ELSE "Insufficient stock"]

\* The findOne of items[c.i] has returned: the entry is pushed, allValid
\* lowered if it is not valid, and the loop goes on.
ValidateFound(c) ==
    LET result == validationResult(c.updates[c.i]) IN
    ValidateHead([c EXCEPT !.validationResults = Append(@, result),
                           !.allValid = @ /\ result.valid],
                 c.i + 1)

\* The check of the body, then the first turn of the loop up to the result of
\* its findOne.
ValidateStockFind(p, body) ==
    LET c == [Idle EXCEPT !.op = "validate", !.updates = body.updates,
                          !.allValid = TRUE, !.stockBefore = products] IN
    /\ MayStart(p)
    /\ calls' = [calls EXCEPT ![p] =
         IF body.type # "array"
         THEN ValidateDone(c, 400, FALSE, "Items array is required")
         ELSE IF ValidateHead(c, 1).pc = "validate_find"
         THEN ValidateFound(ValidateHead(c, 1))
         ELSE ValidateHead(c, 1)]
    /\ UNCHANGED <<accountStores, orders, cancellationRequests, staffNotifications, nextId,
                   returnStores, products, stockReservations>>

\* The findOne of a later turn.
ValidateStockFindNext(p) ==
    /\ calls[p].pc = "validate_find"
    /\ calls' = [calls EXCEPT ![p] = ValidateFound(calls[p])]
    /\ UNCHANGED <<accountStores, orders, cancellationRequests, staffNotifications, nextId,
                   returnStores, products, stockReservations>>

----------------------------------------------------------------------------
\* POST /api/products/reserve-stock

\* const { expiresInMinutes = 15 } = req.body
DefaultMinutes == 15

\* Mutant: a request that leaves expiresInMinutes out gets no default.
expiresInMinutesNoDefault(sent) == sent.value

\* expiresInMinutes after the default: sent is the field of the body, of type
\* "undefined" when it was left out.
expiresInMinutes(sent) ==
    IF sent.type = "undefined" THEN DefaultMinutes ELSE sent.value

\* new Date(Date.now() + (expiresInMinutes * 60 * 1000)), in milliseconds.
expiresAt(now, minutes) == now + (minutes * 60 * 1000)

\* The reservation object.
reservation(body, now) ==
    [_id |-> nextId, reservationId |-> body.reservationId,
     items |-> body.updates, createdAt |-> now,
     expiresAt |-> expiresAt(now, expiresInMinutes(body.expiresInMinutes)),
     status |-> "active"]

\* The check of the body, then reservationsCollection.insertOne(reservation)
\* and the response.  now is the clock when the request is served.
ReserveStock(p, body, now) ==
    LET c == [Idle EXCEPT !.op = "reserve", !.updates = body.updates,
                          !.stockBefore = products]
        sent(done) == [done EXCEPT !.bodyType = body.type,
                                   !.reservationId = body.reservationId,
                                   !.expiresInMinutes = body.expiresInMinutes,
                                   !.stockBefore = products]
    IN
    /\ MayStart(p)
    /\ IF body.type # "array" \/ body.reservationId = ""
       THEN /\ calls' = [calls EXCEPT ![p] =
                    sent(StockDone(c, 400, FALSE,
                        "Items array and reservationId are required", 0, 0))]
            /\ UNCHANGED <<stockReservations, nextId>>
       ELSE /\ nextId <= MaxId
            /\ stockReservations' = stockReservations \cup {reservation(body, now)}
            /\ nextId' = nextId + 1
            /\ calls' = [calls EXCEPT ![p] =
                    [sent(StockDone(c, 200, TRUE, "", 0, 0)) EXCEPT
                        !.expiresAt = reservation(body, now).expiresAt]]
    /\ UNCHANGED <<accountStores, orders, cancellationRequests, staffNotifications,
                   returnStores, products>>

----------------------------------------------------------------------------
\* Requests.  Ids a client may send: every id the database has handed out, and
\* 0 for a missing one.

SentIds == 0..(nextId - 1)

\* Collection names sent while requests interleave.
FromArgs == {"pending", "accepted"}
ToArgs == {"accepted", "delivered", "denied"}

\* A step of a handler past its first.
Continue(p) ==
    \/ Release(p)
    \/ MoveInsert(p)
    \/ MoveDelete(p)
    \/ MoveRollback(p)
    \/ CancelFindAccepted(p)
    \/ CancelInsert(p)
    \/ CancelDelete(p)
    \/ CancelRollback(p)
    \/ CancelNotify(p)
    \/ CancelNotifyFails(p)
    \/ DecideUpdate(p)
    \/ DecideFindPending(p)
    \/ DecideFindAccepted(p)
    \/ DecideInsert(p)
    \/ DecideDelete(p)

Next ==
    \E p \in Slots :
        \/ Continue(p)
        \/ \E orderData \in Checkouts : CreateOrder(p, orderData)
        \/ \E id \in SentIds : VerifyPayment(p, id, TRUE)
        \/ \E id \in SentIds, f \in FromArgs, t \in ToArgs : MoveFind(p, id, f, t)
        \/ \E id \in SentIds : CancelFindPending(p, id, "changed my mind")
        \/ \E id \in SentIds, a \in {"approve", "reject"} : DecideFind(p, id, a)

Spec == Init /\ [][Next]_vars

\* Requests served one at a time: a request arrives only when no handler is
\* running and no response is waiting.  Every name and id is tried.
Quiet == \A q \in Slots : calls[q].pc = "idle"

CollectionArgs ==
    {"", "orders", "pending", "accepted", "delivered", "denied", "returned",
     "cancelled"}

\* Served alone, no delete finds its document gone and no approval finds the
\* order it looks for, so the rollbacks and the approval's insert and delete
\* have no step here.
NextSeq ==
    \E p \in Slots :
        \/ Release(p)
        \/ MoveInsert(p)
        \/ MoveDelete(p)
        \/ CancelFindAccepted(p)
        \/ CancelInsert(p)
        \/ CancelDelete(p)
        \/ CancelNotify(p)
        \/ CancelNotifyFails(p)
        \/ DecideUpdate(p)
        \/ DecideFindPending(p)
        \/ DecideFindAccepted(p)
        \/ Quiet /\ \E orderData \in Checkouts : CreateOrder(p, orderData)
        \/ Quiet /\ \E id \in SentIds, v \in BOOLEAN : VerifyPayment(p, id, v)
        \/ Quiet /\ \E id \in SentIds, f \in CollectionArgs, t \in CollectionArgs :
              MoveFind(p, id, f, t)
        \/ Quiet /\ \E id \in SentIds, reason \in {"", "changed my mind"} :
              CancelFindPending(p, id, reason)
        \/ Quiet /\ \E id \in SentIds, a \in {"approve", "reject", "hold"} :
              DecideFind(p, id, a)

SpecSeq == Init /\ [][NextSeq]_vars

\* Staff members move the same order at the same time: one checkout has been
\* served (its order has _id 1), then every slot takes one move of that order
\* and keeps its response.
InitDuel ==
    /\ \E orderData \in Checkouts :
          orders = [c \in Collections |->
             IF c = PendingOrders
             THEN {[NoDoc EXCEPT !._id = 1, !.orderNumber = 1,
                        !.status = IF orderData.status = "" THEN "active"
                                   ELSE orderData.status,
                        !.itemsordered = orderData.itemsordered,
                        !.total = orderData.total,
                        !.paymentMethod = orderData.paymentMethod,
                        !.userId = orderData.userId,
                        !.email = orderData.email,
                        !.fullName = orderData.fullName,
                        !.orderDate = 1, !.updatedAt = Date]}
             ELSE {}]
    /\ cancellationRequests = {}
    /\ staffNotifications = <<>>
    /\ nextId = 2
    /\ calls = [p \in Slots |-> Idle]
    /\ returnRequests = {}
    /\ returnedRecords = {}
    /\ userNotifications = <<>>
    /\ products = <<>>
    /\ stockReservations = {}
    /\ userAddresses = {}
    /\ authCodes = {}

NextDuel ==
    \E p \in Slots :
        \/ \E f \in {"orders", "pending", "accepted"}, t \in CollectionArgs :
              MoveFind(p, 1, f, t)
        \/ MoveInsert(p)
        \/ MoveDelete(p)
        \/ MoveRollback(p)

SpecDuel == InitDuel /\ [][NextDuel]_vars

----------------------------------------------------------------------------
\* The return workflow: checkouts of two customers, moves along the lifecycle,
\* return requests and their decisions, served one at a time.  Served alone,
\* no delete finds its document gone, so the rollbacks have no step here.

ReturnCheckouts ==
    {[status |-> "", itemsordered |-> <<"hammer">>, total |-> 150,
      paymentMethod |-> "gcash", userId |-> "u1",
      email |-> "a@x", fullName |-> "Ana"],
     [status |-> "", itemsordered |-> <<"hammer">>, total |-> 150,
      paymentMethod |-> "gcash", userId |-> "u2",
      email |-> "b@x", fullName |-> "Ben"]}

ReturnContinue(p) ==
    \/ Release(p)
    \/ MoveInsert(p)
    \/ MoveDelete(p)
    \/ ReturnFindNext(p)
    \/ ReturnInsert(p)
    \/ ReturnNotify(p)
    \/ ReturnNotifyFails(p)
    \/ ReturnDecideFindOrder(p)
    \/ ReturnDecideArchive(p)
    \/ ReturnDecideRemove(p)
    \/ ReturnDecideDeleteOrder(p)
    \/ ReturnDecideUserNotify(p)
    \/ ReturnDecideUserNotifyFails(p)
    \/ ReturnDecideStaffNotify(p)
    \/ ReturnDecideStaffNotifyFails(p)

NextReturn ==
    \E p \in Slots :
        \/ ReturnContinue(p)
        \/ Quiet /\ \E orderData \in ReturnCheckouts : CreateOrder(p, orderData)
        \/ Quiet /\ \E id \in SentIds, f \in FromArgs, t \in ToArgs :
              MoveFind(p, id, f, t)
        \/ Quiet /\ \E id \in SentIds, returnType \in {"", "return"},
                       selectedItems \in {<<>>, <<"hammer">>},
                       returnImage \in {"", "photo.jpg"} :
              ReturnFindDelivered(p, id, returnType, selectedItems, returnImage)
        \/ Quiet /\ \E id \in SentIds, a \in {"approve", "reject", "hold"},
                       returnImage \in {"", "staff.jpg"} :
              ReturnDecideFind(p, id, a, returnImage)

SpecReturn == Init /\ [][NextReturn]_vars

----------------------------------------------------------------------------
\* The requests that notify the staff: checkouts, cancel-requests and
\* return-request submissions, interleaved at their awaits.

NotifyContinue(p) ==
    \/ Release(p)
    \/ CancelFindAccepted(p)
    \/ CancelInsert(p)
    \/ CancelDelete(p)
    \/ CancelRollback(p)
    \/ CancelNotify(p)
    \/ CancelNotifyFails(p)
    \/ ReturnFindNext(p)
    \/ ReturnInsert(p)
    \/ ReturnNotify(p)
    \/ ReturnNotifyFails(p)

NextNotify ==
    \E p \in Slots :
        \/ NotifyContinue(p)
        \/ \E orderData \in Checkouts : CreateOrder(p, orderData)
        \/ \E id \in SentIds, reason \in {"", "changed my mind"} :
              CancelFindPending(p, id, reason)
        \/ \E id \in SentIds, returnType \in {"", "return"},
              selectedItems \in {<<>>, <<"hammer">>} :
              ReturnFindDelivered(p, id, returnType, selectedItems, "photo.jpg")

SpecNotify == Init /\ [][NextNotify]_vars

----------------------------------------------------------------------------
\* The stock ledger on a catalogue of NumProducts products with any stock up
\* to MaxStock, its requests served one at a time.

ProductIds == 1..NumProducts

\* Ids a client may send: 0 for a missing id, the products, and an id no
\* product has.
SentProductIds == 0..(NumProducts + 1)

\* Quantities a client may send: numbers, a negative one included, and a
\* numeric string.
Items ==
    [id : SentProductIds, quantity : (-1)..MaxQuantity, type : {"number"}]
    \cup [id : SentProductIds, quantity : {1}, type : {"string"}]

Batches == UNION {[1..n -> Items] : n \in 0..MaxBatch}

\* Request bodies: updates / items missing, not an array, or an array.
Bodies ==
    {[type |-> "undefined", updates |-> <<>>], [type |-> "object", updates |-> <<>>]}
    \cup {[type |-> "array", updates |-> u] : u \in Batches}

InitStock ==
    /\ orders = [c \in Collections |-> {}]
    /\ cancellationRequests = {}
    /\ staffNotifications = <<>>
    /\ nextId = 1
    /\ calls = [p \in Slots |-> Idle]
    /\ returnRequests = {}
    /\ returnedRecords = {}
    /\ userNotifications = <<>>
    /\ products \in [ProductIds -> 0..MaxStock]
    /\ stockReservations = {}
    /\ userAddresses = {}
    /\ authCodes = {}

NextStock ==
    \E p \in Slots :
        \/ Release(p)
        \/ BulkStockFindNext(p)
        \/ BulkStockUpdate(p)
        \/ RestoreStockFindNext(p)
        \/ RestoreStockUpdate(p)
        \/ ValidateStockFindNext(p)
        \/ Quiet /\ \E body \in Bodies : BulkStockFind(p, body)
        \/ Quiet /\ \E body \in Bodies : RestoreStockFind(p, body)
        \/ Quiet /\ \E body \in Bodies : ValidateStockFind(p, body)

SpecStock == InitStock /\ [][NextStock]_vars

\* The stock ledger under requests that overlap: every request is well
\* formed and names one existing or missing product and a positive quantity;
\* a direct set sends any quantity.
GoodItems == {item \in Items : Valid(item) /\ item.quantity > 0}

SingleBodies == {[type |-> "array", updates |-> <<item>>] : item \in GoodItems}

NextStockRace ==
    \E p \in Slots :
        \/ Release(p)
        \/ BulkStockUpdate(p)
        \/ RestoreStockUpdate(p)
        \/ \E body \in SingleBodies : BulkStockFind(p, body)
        \/ \E body \in SingleBodies : RestoreStockFind(p, body)
        \/ \E item \in {it \in Items : it.id # 0} : SetStock(p, item)

SpecStockRace == InitStock /\ [][NextStockRace]_vars

\* Reservations: a checkout reserves and a cancelled checkout restores.  No
\* handler runs while a request arrives, but a response may still be waiting
\* in the other slot.  The items name product 1 and a product that does not
\* exist; expiresInMinutes is left out or sent.
Settled == \A q \in Slots : calls[q].pc \in {"idle", "done"}

HoldBatches ==
    LET a == [id |-> 1, quantity |-> 2, type |-> "number"]
        b == [id |-> NumProducts + 1, quantity |-> 1, type |-> "number"]
    IN {<<a>>, <<b, a>>}

HoldBodies ==
    {[type |-> "undefined", updates |-> <<>>, reservationId |-> r,
      expiresInMinutes |-> [type |-> "undefined", value |-> 0]] :
         r \in {"", "r1"}}
    \cup [type : {"array"}, updates : HoldBatches, reservationId : {"", "r1"},
          expiresInMinutes : {[type |-> "undefined", value |-> 0],
                              [type |-> "number", value |-> 30]}]

\* Date.now() when a reservation is made.
Clock == {1000}

NextReserve ==
    \E p \in Slots :
        \/ Release(p)
        \/ RestoreStockFindNext(p)
        \/ RestoreStockUpdate(p)
        \/ Settled /\ \E body \in HoldBodies, now \in Clock :
              ReserveStock(p, body, now)
        \/ Settled /\ \E body \in HoldBodies : RestoreStockFind(p, body)

SpecReserve == InitStock /\ [][NextReserve]_vars

\* The staff's desk: checkouts, walk-in sales and moves, served one at a time.
\* A move may leave out any field, name any collection, and carry a reason or
\* an image.
WalkInSales ==
    [fullName : {"", "Ana"}, itemsType : {"undefined", "array"},
     itemsordered : {<<"hammer">>}, status : {""}, total : {150},
     paymentMethod : {"cash"}, userId : {"u1"}, email : {""}]

MoveBodies ==
    [orderId : SentIds, operation : {"", "move"},
     fromCollection : CollectionArgs \cup {"walkin"},
     toCollection : CollectionArgs \cup {"walkin"},
     denialReason : {"", "out of stock"}, returnReason : {"", "damaged"},
     returnImage : {"", "photo.jpg"}]

NextMove ==
    \E p \in Slots :
        \/ Release(p)
        \/ MoveInsert(p)
        \/ MoveDelete(p)
        \/ Quiet /\ \E orderData \in Checkouts : CreateOrder(p, orderData)
        \/ Quiet /\ \E orderData \in WalkInSales : CreateWalkInOrder(p, orderData)
        \/ Quiet /\ \E body \in MoveBodies : MoveRequest(p, body)

SpecMove == Init /\ [][NextMove]_vars

\* The staff's order desk and the customer's cancel-request, served one at a
\* time: checkouts, moves, payment verification, payment and status updates,
\* and orders posted straight into AcceptedOrders or DeliveredOrders.  A
\* posted body is an order read earlier from any collection, sent back
\* without its _id, or an empty body.
DeskStatuses == {"", "pending", "confirmed", "shipped"}

DeskCheckouts == {o \in Checkouts : o.status = ""}

PostedOrders ==
    {[d EXCEPT !._id = 0] : d \in UNION {orders[c] : c \in Collections}}
    \cup {NoDoc}

NextDesk ==
    \E p \in Slots :
        \/ Release(p)
        \/ MoveInsert(p)
        \/ MoveDelete(p)
        \/ CancelFindAccepted(p)
        \/ CancelInsert(p)
        \/ CancelDelete(p)
        \/ CancelNotify(p)
        \/ CancelNotifyFails(p)
        \/ Quiet /\ \E orderData \in DeskCheckouts : CreateOrder(p, orderData)
        \/ Quiet /\ \E id \in SentIds, v \in BOOLEAN : VerifyPayment(p, id, v)
        \/ Quiet /\ \E id \in SentIds : UpdatePayment(p, id, "gcash-ref")
        \/ Quiet /\ \E id \in SentIds, s \in DeskStatuses : UpdateStatus(p, id, s)
        \/ Quiet /\ \E orderData \in PostedOrders : PostAccepted(p, orderData)
        \/ Quiet /\ \E orderData \in PostedOrders : PostDelivered(p, orderData)
        \/ Quiet /\ \E id \in SentIds, f \in CollectionArgs, t \in CollectionArgs :
              MoveFind(p, id, f, t)
        \/ Quiet /\ \E id \in SentIds : CancelFindPending(p, id, "changed my mind")

SpecDesk == Init /\ [][NextDesk]_vars

\* A staff member moves an order while its customer asks to cancel it: the
\* order (its _id is 1) is in PendingOrders as checked out, or in
\* AcceptedOrders as a move left it; one slot takes the move, the other the
\* cancel-request, both name _id 1, and both keep their responses.
InitCross ==
    /\ \E orderData \in DeskCheckouts, name \in {"pending", "accepted"} :
          LET order == [NoDoc EXCEPT !.orderNumber = 1, !.status = "active",
                           !.itemsordered = orderData.itemsordered,
                           !.total = orderData.total,
                           !.paymentMethod = orderData.paymentMethod,
                           !.userId = orderData.userId,
                           !.email = orderData.email,
                           !.fullName = orderData.fullName,
                           !.orderDate = 1, !.updatedAt = Date]
              held == IF name = "pending" THEN order
                      ELSE updatedOrder(order, [toCollection |-> name])
          IN orders = [c \in Collections |->
                IF c = collectionMapping(name)
                THEN {[held EXCEPT !._id = 1]} ELSE {}]
    /\ cancellationRequests = {}
    /\ staffNotifications = <<>>
    /\ nextId = 2
    /\ calls = [p \in Slots |-> Idle]
    /\ returnRequests = {}
    /\ returnedRecords = {}
    /\ userNotifications = <<>>
    /\ products = <<>>
    /\ stockReservations = {}
    /\ userAddresses = {}
    /\ authCodes = {}

NextCross ==
    \E p \in Slots :
        \/ /\ \A q \in Slots : calls[q].op # "move"
           /\ \E f \in {"orders", "pending", "accepted"},
                 t \in {"orders", "pending", "accepted", "delivered", "denied"} :
                 MoveFind(p, 1, f, t)
        \/ /\ \A q \in Slots : calls[q].op # "cancel"
           /\ CancelFindPending(p, 1, "changed my mind")
        \/ MoveInsert(p)
        \/ MoveDelete(p)
        \/ MoveRollback(p)
        \/ CancelFindAccepted(p)
        \/ CancelInsert(p)
        \/ CancelDelete(p)
        \/ CancelRollback(p)
        \/ CancelNotify(p)
        \/ CancelNotifyFails(p)

SpecCross == InitCross /\ [][NextCross]_vars

\* Staff members decide the same return request at the same time.  The
\* order is checked out, moved and its return asked for, one request at a
\* time and one return request only; then every slot takes one decision and
\* keeps its response, so the decisions overlap or follow each other.
Deciding == \E q \in Slots : calls[q].op = "return_decide"

NextReturnRace ==
    \E p \in Slots :
        \/ ~Deciding /\ Release(p)
        \/ MoveInsert(p)
        \/ MoveDelete(p)
        \/ ReturnFindNext(p)
        \/ ReturnInsert(p)
        \/ ReturnNotify(p)
        \/ ReturnNotifyFails(p)
        \/ ReturnDecideFindOrder(p)
        \/ ReturnDecideArchive(p)
        \/ ReturnDecideRemove(p)
        \/ ReturnDecideRollback(p)
        \/ ReturnDecideDeleteOrder(p)
        \/ ReturnDecideUserNotify(p)
        \/ ReturnDecideUserNotifyFails(p)
        \/ ReturnDecideStaffNotify(p)
        \/ ReturnDecideStaffNotifyFails(p)
        \/ Quiet /\ \E orderData \in DeskCheckouts : CreateOrder(p, orderData)
        \/ Quiet /\ \E id \in SentIds : MoveFind(p, id, "pending", "delivered")
        \/ Quiet /\ returnRequests = {} /\ returnedRecords = {}
                 /\ \E id \in SentIds :
                       ReturnFindDelivered(p, id, "return", <<"hammer">>, "photo.jpg")
        \/ /\ \A q \in Slots : calls[q].op \in {"", "return_decide"}
           /\ \E id \in SentIds, a \in {"approve", "reject"} :
                 ReturnDecideFind(p, id, a, "")

SpecReturnRace == Init /\ [][NextReturnRace]_vars

\* A customer's address book: addresses saved under a userId, an email or
\* both, as default or not, and addresses made the default, one request at a
\* time.
AddressBodies ==
    [missing : {FALSE}, userId : {"", "u1", "7"}, email : {"", "a@x"},
     addressData : [id : {"addr_1", "addr_2"}, isDefault : BOOLEAN]]
    \cup [missing : {TRUE}, userId : {"u1"}, email : {""},
          addressData : [id : {""}, isDefault : {FALSE}]]

AddressIds ==
    [text : {"addr_1", "addr_2"}, oid : {0}]
    \cup [text : {"oid"}, oid : SentIds]

NextAddress ==
    \E p \in Slots :
        \/ Release(p)
        \/ SaveAddressInsert(p)
        \/ SetDefaultUnset(p)
        \/ SetDefaultSet(p)
        \/ Quiet /\ \E body \in AddressBodies : SaveAddress(p, body)
        \/ Quiet /\ \E id \in AddressIds : SetDefaultFind(p, id)

SpecAddress == Init /\ [][NextAddress]_vars

\* Codes are created and guessed for one mailbox, written in either case,
\* by requests that overlap.  A code is created at time 0 and guessed before
\* or after it has expired.
CodeEmails == {"", "a@x", "A@X"}
Codes == {1111, 2222}
CodeClock == {0, 20}

NextCode ==
    \E p \in Slots :
        \/ Release(p)
        \/ CreateCodeInsert(p)
        \/ VerifyCodeUpdate(p)
        \/ \E email \in CodeEmails, code \in Codes :
              CreateCodeDelete(p, email, code, 0)
        \/ \E email \in CodeEmails, code \in Codes \cup {0}, now \in CodeClock :
              VerifyCodeFind(p, email, code, now)

SpecCode == Init /\ [][NextCode]_vars

\* The customer's view of their orders, asked for between checkouts, walk-in
\* sales and moves, one request at a time.
ViewKeys ==
    [userId : {"u1", "7", "all-staff", "by-email"}, email : {"", "b@x"},
     fullName : {"", "Ana"}]

\* Customers: one with a name for an id, and two who share the id 7, stored
\* as a number for one and as a string for the other, and share a name with
\* the first or an email with each other.
ViewCheckouts ==
    {[status |-> "", itemsordered |-> <<"hammer">>, total |-> 150,
      paymentMethod |-> "gcash", userId |-> o[1], email |-> o[2],
      fullName |-> o[3]] :
        o \in {<<"u1", "a@x", "Ana">>, <<"#7", "b@x", "Ben">>,
               <<"7", "c@x", "Ana">>, <<"u2", "b@x", "Cy">>}}

NextView ==
    \E p \in Slots :
        \/ Release(p)
        \/ MoveInsert(p)
        \/ MoveDelete(p)
        \/ GetOrdersAccepted(p)
        \/ GetOrdersDelivered(p)
        \/ GetOrdersWalkIn(p)
        \/ GetOrdersDebug(p)
        \/ GetOrdersCancellation(p)
        \/ Quiet /\ \E orderData \in ViewCheckouts : CreateOrder(p, orderData)
        \/ Quiet /\ \E orderData \in WalkInSales : CreateWalkInOrder(p, orderData)
        \/ Quiet /\ \E id \in SentIds,
                       f \in {"pending", "accepted", "delivered"},
                       t \in {"accepted", "delivered", "denied", "returned"} :
              MoveFind(p, id, f, t)
        \/ Quiet /\ \E keys \in ViewKeys : GetOrdersPending(p, keys)

SpecView == Init /\ [][NextView]_vars

\* The customer asks to cancel, the staff decides, and the customer looks at
\* their orders in between; one request at a time.  Served alone, an
\* approval never finds the order it looks for, so its insert and delete
\* have no step here.
NextCancelView ==
    \E p \in Slots :
        \/ Release(p)
        \/ CancelFindAccepted(p)
        \/ CancelInsert(p)
        \/ CancelDelete(p)
        \/ CancelNotify(p)
        \/ CancelNotifyFails(p)
        \/ DecideUpdate(p)
        \/ DecideFindPending(p)
        \/ DecideFindAccepted(p)
        \/ GetOrdersAccepted(p)
        \/ GetOrdersDelivered(p)
        \/ GetOrdersWalkIn(p)
        \/ GetOrdersDebug(p)
        \/ GetOrdersCancellation(p)
        \/ Quiet /\ \E orderData \in ViewCheckouts : CreateOrder(p, orderData)
        \/ Quiet /\ \E id \in SentIds : CancelFindPending(p, id, "changed my mind")
        \/ Quiet /\ \E id \in SentIds, a \in {"approve", "reject"} :
              DecideFind(p, id, a)
        \/ Quiet /\ \E keys \in ViewKeys : GetOrdersPending(p, keys)

SpecCancelView == Init /\ [][NextCancelView]_vars

\* Orders and the stock ledger together: every product starts with MaxStock
\* in stock, a checkout orders one product in some quantity, and the order
\* requests of the shop and of the staff are served one at a time.
LedgerCheckouts ==
    {[status |-> "", total |-> 150, paymentMethod |-> "gcash", userId |-> "u1",
      email |-> "a@x", fullName |-> "Ana",
      itemsordered |-> <<[item_id |-> id, amount_per_item |-> q]>>] :
        id \in ProductIds, q \in 1..MaxQuantity}

InitLedger ==
    /\ orders = [c \in Collections |-> {}]
    /\ cancellationRequests = {}
    /\ staffNotifications = <<>>
    /\ nextId = 1
    /\ calls = [p \in Slots |-> Idle]
    /\ returnRequests = {}
    /\ returnedRecords = {}
    /\ userNotifications = <<>>
    /\ products = [id \in ProductIds |-> MaxStock]
    /\ stockReservations = {}
    /\ userAddresses = {}
    /\ authCodes = {}

NextLedger ==
    \E p \in Slots :
        \/ Release(p)
        \/ MoveInsert(p)
        \/ MoveDelete(p)
        \/ CancelFindAccepted(p)
        \/ CancelInsert(p)
        \/ CancelDelete(p)
        \/ CancelNotify(p)
        \/ CancelNotifyFails(p)
        \/ DecideUpdate(p)
        \/ DecideFindPending(p)
        \/ DecideFindAccepted(p)
        \/ Quiet /\ \E orderData \in LedgerCheckouts : CreateOrder(p, orderData)
        \/ Quiet /\ \E id \in SentIds, f \in FromArgs, t \in ToArgs :
              MoveFind(p, id, f, t)
        \/ Quiet /\ \E id \in SentIds : CancelFindPending(p, id, "changed my mind")
        \/ Quiet /\ \E id \in SentIds, a \in {"approve", "reject"} :
              DecideFind(p, id, a)

SpecLedger == InitLedger /\ [][NextLedger]_vars

----------------------------------------------------------------------------
\* Properties.

\* The collections holding a copy of the order with business key k.
Holders(k) == {c \in Collections : \E d \in orders[c] : d.orderNumber = k}

\* The collections of the next state holding a document with this _id.
HoldersOfIdAfter(id) == {c \in Collections : \E d \in orders'[c] : d._id = id}

OrderNumbers == 1..MaxId

\* Slot p sends its response in this step.
Returns(p, op) == calls[p].pc # "done" /\ calls'[p].pc = "done" /\ calls'[p].op = op

\* C1: in every reachable state, the states between the database steps of a
\* move included, each order's data is held by at most one collection.
C1_AtMostOnePartition ==
    \A k \in OrderNumbers : Cardinality(Holders(k)) <= 1

\* C2: when a move reports success, no collection holds a document under the
\* old orderId any more, the target holds exactly one document carrying the
\* order's data, that document is the one whose new id is returned, and the
\* new id differs from orderId; an id that has left every collection never
\* comes back, so a later lookup by the old id finds nothing.
C2_MoveSuccess ==
    [][ /\ \A p \in Slots :
             (Returns(p, "move") /\ calls'[p].success) =>
                LET c == calls[p]
                    copies == {d \in orders'[c.target] :
                                  d.orderNumber = c.order.orderNumber}
                IN /\ HoldersOfIdAfter(c.orderId) = {}
                   /\ calls'[p].newId # c.orderId
                   /\ Cardinality(copies) = 1
                   /\ \A d \in copies :
                         /\ d._id = calls'[p].newId
                         /\ d.itemsordered = c.order.itemsordered
                         /\ d.total = c.order.total
                         /\ d.paymentMethod = c.order.paymentMethod
        /\ \A id \in 1..(nextId - 1) :
             (\A coll \in Collections : \A d \in orders[coll] : d._id # id)
                => HoldersOfIdAfter(id) = {}
      ]_vars

\* C2 witness: a move has reported success and its new document is stored.
C2_Witness ==
    \E p \in Slots :
        /\ calls[p].pc = "done" /\ calls[p].op = "move" /\ calls[p].success
        /\ \E coll \in Collections : \E d \in orders[coll] : d._id = calls[p].newId

\* C3: a move reports success only in the step whose delete removed the order
\* from the source; a move that inserted its copy and then fails leaves no
\* document under the inserted id in the target, and answers 500.
C3_RollbackOnFailedDelete ==
    [][ \A p \in Slots :
           Returns(p, "move") =>
              LET c == calls[p] IN
              /\ calls'[p].success =>
                    /\ \E d \in orders[c.source] : d._id = c.orderId
                    /\ \A d \in orders'[c.source] : d._id # c.orderId
              /\ (~calls'[p].success /\ c.insertedId # 0) =>
                    /\ \A d \in orders'[c.target] : d._id # c.insertedId
                    /\ calls'[p].status = 500
      ]_vars

\* C3 witness: a move has ended with the 500 of its rollback.
C3_Witness ==
    \E p \in Slots :
        calls[p].pc = "done" /\ calls[p].op = "move" /\ calls[p].status = 500

\* C4: of the moves racing for one order at most one reports success, and
\* once all have returned exactly one document of the order exists.
C4_OneMoveWins ==
    /\ Cardinality({p \in Slots : calls[p].pc = "done" /\ calls[p].success}) <= 1
    /\ (\A p \in Slots : calls[p].pc = "done") =>
          /\ Cardinality(Holders(1)) = 1
          /\ \A coll \in Holders(1) :
                Cardinality({d \in orders[coll] : d.orderNumber = 1}) = 1

\* C4 witness: two moves read the order, one succeeded, the other rolled back.
C4_Witness ==
    /\ \A p \in Slots : calls[p].pc = "done"
    /\ \E p \in Slots : calls[p].success
    /\ \E p \in Slots : calls[p].status = 500

\* C5: when a cancel-request reports success, no collection holds the order
\* under its id any more, and the request it created is stored with status
\* pending_review, originalOrderId the order's id, and the order's items,
\* payment method and total.
C5_CancelRequestSuccess ==
    [][ \A p \in Slots :
           (Returns(p, "cancel") /\ calls'[p].success) =>
              LET c == calls[p] IN
              /\ HoldersOfIdAfter(c.orderId) = {}
              /\ \E r \in cancellationRequests' :
                    /\ r._id = calls'[p].newId
                    /\ r.status = "pending_review"
                    /\ r.originalOrderId = c.orderId
                    /\ r.itemsordered = c.order.itemsordered
                    /\ r.originalOrderTotal = c.order.total
                    /\ c.order.paymentMethod # "" =>
                          r.paymentMethod = c.order.paymentMethod
      ]_vars

\* C5 witness: a cancel-request for an order with a line item has reported
\* success.
C5_Witness ==
    \E p \in Slots :
        /\ calls[p].pc = "done" /\ calls[p].op = "cancel" /\ calls[p].success
        /\ \E r \in cancellationRequests :
              r._id = calls[p].newId /\ r.itemsordered # <<>>

\* C6: a cancel-request that reports failure leaves no request record that it
\* created.
C6_NoRequestAfterFailure ==
    [][ \A p \in Slots :
           (Returns(p, "cancel") /\ ~calls'[p].success /\ calls[p].insertedId # 0) =>
              \A r \in cancellationRequests' : r._id # calls[p].insertedId
      ]_vars

\* The cancel-request that created this request went through to its staff
\* notification.
Announced(requestId) ==
    \E i \in 1..Len(staffNotifications) :
        staffNotifications[i].requestId = requestId

\* C7: when the approval of a request that cancel-request created reports
\* success, CancelledOrders holds an order record made for that request from
\* its snapshot, and the request is approved.
C7_ApprovalCreatesCancelledOrder ==
    [][ \A p \in Slots :
           (Returns(p, "decide") /\ calls'[p].success /\ calls[p].action = "approve"
            /\ Announced(calls[p].requestId)) =>
              /\ \E d \in orders'[CancelledOrders] :
                    /\ d.cancellationRequestId = calls[p].requestId
                    /\ d.orderNumber = calls[p].request.orderNumber
              /\ \A r \in cancellationRequests' :
                    r._id = calls[p].requestId => r.status = "approved"
      ]_vars

\* C8: no step of a rejection changes any order collection, and when the
\* rejection answers, the request's status is rejected.
C8_RejectRestoresNothing ==
    [][ \A p \in Slots :
           (calls[p].op = "decide" /\ calls[p].action = "reject"
            /\ calls'[p] # calls[p]) =>
              /\ orders' = orders
              /\ calls'[p].pc = "done" /\ calls'[p].success
              /\ \A r \in cancellationRequests' :
                    r._id = calls[p].requestId => r.status = "rejected"
      ]_vars

\* C8 witness: a decision has answered, a request stands rejected, and the
\* order it froze is in no collection.
C8_Witness ==
    \E p \in Slots :
        /\ calls[p].pc = "done" /\ calls[p].op = "decide" /\ calls[p].success
        /\ \E r \in cancellationRequests :
              r.status = "rejected" /\ Holders(r.orderNumber) = {}

\* Spellings of the three cancellable statuses.
CancellableSpellings ==
    {"pending", "Pending", "active", "Active", "approved", "Approved"}

\* The stores a cancel-request may write.
CancelStores == <<orders, cancellationRequests, staffNotifications>>

C10_DecisionIsFinal ==
    [][ \A r \in cancellationRequests :
           r.status \in {"approved", "rejected"} =>
              \A r2 \in cancellationRequests' :
                 r2._id = r._id => r2.status = r.status
      ]_vars

\* The live partitions.
LivePartitions == {PendingOrders, AcceptedOrders, DeliveredOrders}

\* The positions of seq holding a notification of this type for this request.
NotesOf(seq, type, requestId) ==
    {i \in 1..Len(seq) : seq[i].type = type /\ seq[i].requestId = requestId}

\* The archived records of ReturnedOrders made for this request.
ArchivedFor(records, requestId) == {a \in records : a.requestId = requestId}

\* C11: when a return decision reports success, the request is gone from
\* ReturnRequests and ReturnedOrders holds exactly one record for it, the one
\* whose id is returned, with staffDecision accepted for approve and rejected
\* for reject and with customerImage the image the request was submitted
\* with (null when none was sent); a submission that reports success has
\* stored that image; and once a decision has returned, no request is both in
\* ReturnRequests and archived.
C11_DecisionArchivesRequest ==
    [][ \A p \in Slots :
           /\ (Returns(p, "return_decide") /\ calls'[p].success) =>
                 LET c == calls[p] IN
                 /\ \A r \in returnRequests' : r._id # c.requestId
                 /\ Cardinality(ArchivedFor(returnedRecords', c.requestId)) = 1
                 /\ \A a \in ArchivedFor(returnedRecords', c.requestId) :
                       /\ a._id = calls'[p].newId
                       /\ c.action = "approve" => a.staffDecision = "accepted"
                       /\ c.action = "reject" => a.staffDecision = "rejected"
                       /\ a.customerImage = c.returnRequest.returnImage
           /\ (Returns(p, "return") /\ calls'[p].success) =>
                 \E r \in returnRequests' :
                    /\ r._id = calls'[p].newId
                    /\ r.returnImage = IF calls[p].returnImage = "" THEN Null
                                       ELSE calls[p].returnImage
           /\ Returns(p, "return_decide") =>
                 \A r \in returnRequests' : ArchivedFor(returnedRecords', r._id) = {}
      ]_vars

\* C11 witness: an approval has reported success; its record carries the
\* customer's photo and, apart from it, the image the staff sent.
C11_Witness ==
    \E p \in Slots :
        /\ calls[p].pc = "done" /\ calls[p].op = "return_decide" /\ calls[p].success
        /\ \E a \in returnedRecords :
              /\ a._id = calls[p].newId
              /\ a.staffDecision = "accepted"
              /\ a.customerImage = "photo.jpg"
              /\ a.staffDecisionImage = "staff.jpg"

\* The submission that created this return request reported success: its
\* staff notification is stored.
Submitted(requestId) ==
    NotesOf(staffNotifications, "return_request", requestId) # {}

\* C12: when the approval of a return request whose submission succeeded
\* reports success, no live partition holds the order the request was
\* submitted for, whatever moves the order went through since the submission.
C12_ApprovedOrderLeavesLivePartitions ==
    [][ \A p \in Slots :
           (Returns(p, "return_decide") /\ calls'[p].success
            /\ calls[p].action = "approve" /\ Submitted(calls[p].requestId)) =>
              \A coll \in LivePartitions : \A d \in orders'[coll] :
                 d.orderNumber # calls[p].returnRequest.orderNumber
      ]_vars

\* C13: no step of a return-request submission and no step of a rejection
\* changes any order collection: the order stays where it is, under its id,
\* with its fields.
C13_SubmitAndRejectKeepOrder ==
    [][ \A p \in Slots :
           (/\ calls'[p] # calls[p]
            /\ \/ calls'[p].op = "return"
               \/ /\ calls'[p].op = "return_decide"
                  /\ "reject" \in {calls[p].action, calls'[p].action}) =>
              orders' = orders
      ]_vars

\* C13 witness: a rejection has reported success and the order of the
\* request it archived is still stored under the id the request names.
C13_Witness ==
    \E p \in Slots :
        /\ calls[p].pc = "done" /\ calls[p].op = "return_decide" /\ calls[p].success
        /\ \E a \in returnedRecords :
              /\ a._id = calls[p].newId
              /\ a.staffDecision = "rejected"
              /\ \E coll \in LivePartitions : \E d \in orders[coll] :
                    d._id = a.originalOrderId

\* C14: when a decision on a return request whose submission succeeded
\* reports success and no notification insert threw, exactly one user notification exists for the request, addressed to
\* the owner of the order if a collection still holds the order, and exactly
\* one staff notification, appended after the user notification, in the step
\* that answers.
C14_DecisionNotifiesUserThenStaff ==
    [][ \A p \in Slots :
           (Returns(p, "return_decide") /\ calls'[p].success /\ ~calls[p].logged
            /\ staffNotifications' # staffNotifications
            /\ Submitted(calls[p].requestId)) =>
              LET c == calls[p]
                  type == IF c.action = "approve" THEN "return_processed_approved"
                          ELSE "return_processed_rejected"
                  toUser == {i \in 1..Len(userNotifications) :
                                userNotifications[i].requestId = c.requestId}
              IN
              /\ Cardinality(toUser) = 1
              /\ \A i \in toUser : \A coll \in Collections : \A d \in orders[coll] :
                    d.orderNumber = c.returnRequest.orderNumber =>
                       userNotifications[i].userId = d.userId
              /\ Cardinality(NotesOf(staffNotifications', type, c.requestId)) = 1
              /\ NotesOf(staffNotifications, type, c.requestId) = {}
      ]_vars

\* C15: a step in which a notification insert of a return decision throws
\* changes no order, no return request and no archived record and does not
\* answer a failure; and a decision that reached its notifications reports
\* success with its record in ReturnedOrders, its request gone and, for an
\* approval that located the order, the order gone from where it was found.
C15_NotificationFailureKeepsDecision ==
    [][ \A p \in Slots :
           LET c == calls[p] IN
           /\ (/\ c.pc \in {"decide_user_notify", "decide_staff_notify"}
               /\ calls'[p] # c
               /\ UNCHANGED <<userNotifications, staffNotifications>>) =>
                 /\ UNCHANGED <<orders, returnRequests, returnedRecords>>
                 /\ calls'[p].pc = "done" =>
                       calls'[p].success /\ calls'[p].status = 200
                 /\ calls'[p].pc # "done" => calls'[p].pc = "decide_staff_notify"
           /\ (c.pc = "decide_staff_notify" /\ calls'[p] # c) =>
                 /\ calls'[p].pc = "done" /\ calls'[p].success
                 /\ \E a \in returnedRecords' :
                       a._id = calls'[p].newId /\ a.requestId = c.requestId
                 /\ \A r \in returnRequests' : r._id # c.requestId
                 /\ (c.action = "approve" /\ c.order # NoDoc) =>
                       \A d \in orders'[c.source] :
                          d._id # c.returnRequest.originalOrderId
      ]_vars

\* C15 witness: an approval that located the order has reported success
\* although neither of its notifications was stored.
C15_Witness ==
    \E p \in Slots :
        /\ calls[p].pc = "done" /\ calls[p].op = "return_decide" /\ calls[p].success
        /\ \E a \in returnedRecords :
              /\ a._id = calls[p].newId
              /\ a.staffDecision = "accepted"
              /\ a.originalOrderCollection # Null
              /\ NotesOf(staffNotifications, "return_processed_approved",
                         a.requestId) = {}
              /\ \A i \in 1..Len(userNotifications) :
                    userNotifications[i].requestId # a.requestId

\* The requests that create a record and then notify the staff, and the type
\* of the notification each sends.
Notifiers == {"cancel", "return"}

NoteType(op) == IF op = "cancel" THEN "cancellation_request" ELSE "return_request"

\* C16: a cancel-request or return-request submission that has created its
\* request record (and, for cancel-request, removed the order) and is at its
\* staff notification answers success.
C16_SinkFailureKeepsSuccess ==
    [][ \A p \in Slots :
           (/\ calls[p].pc \in {"cancel_notify", "return_notify"}
            /\ calls'[p] # calls[p]) =>
              calls'[p].pc = "done" /\ calls'[p].success
      ]_vars

\* C17: the step in which a cancel-request or a return-request submission
\* answers success appends one staff notification of the request's type for
\* the request it created, the only one of that type for that request; every
\* other step of these handlers, the answers 400, 404 and 500 and the
\* rollback included, leaves StaffNotifications as it was.
C17_OneNotificationPerSubmission ==
    [][ \A p \in Slots :
           (calls'[p] # calls[p] /\ calls'[p].op \in Notifiers) =>
              IF calls'[p].pc = "done" /\ calls'[p].success
              THEN /\ Len(staffNotifications') = Len(staffNotifications) + 1
                   /\ SubSeq(staffNotifications', 1, Len(staffNotifications))
                         = staffNotifications
                   /\ staffNotifications'[Len(staffNotifications')].type
                         = NoteType(calls'[p].op)
                   /\ staffNotifications'[Len(staffNotifications')].requestId
                         = calls'[p].newId
                   /\ calls'[p].newId = calls[p].insertedId
                   /\ Cardinality(NotesOf(staffNotifications',
                         NoteType(calls'[p].op), calls'[p].newId)) = 1
              ELSE staffNotifications' = staffNotifications
      ]_vars

\* C17 witness: a return-request submission and a cancel-request have both
\* reported success, and each has its notification.
C17_Witness ==
    \E p, q \in Slots :
        /\ calls[p].pc = "done" /\ calls[p].op = "cancel" /\ calls[p].success
        /\ calls[q].pc = "done" /\ calls[q].op = "return" /\ calls[q].success
        /\ NotesOf(staffNotifications, "cancellation_request", calls[p].newId) # {}
        /\ NotesOf(staffNotifications, "return_request", calls[q].newId) # {}

\* The stock of every product when the request of slot p arrived, seen from a
\* step of that request.
StockAtArrival(p) ==
    IF calls[p].pc = "idle" THEN products ELSE calls[p].stockBefore

\* C18: a bulk-stock request with one well-formed item for an existing
\* product with stock s and quantity q: if s >= q it goes on to its update,
\* which leaves the product's stock at s - q, changes no other product and
\* answers success; if s < q it answers 400 "Insufficient stock" naming
\* available s and requested q, and the stock stays s.
C18_SingleDecrement ==
    [][ \A p \in Slots :
           (/\ calls'[p] # calls[p] /\ calls'[p].op = "bulk"
            /\ Len(calls'[p].updates) = 1
            /\ Valid(calls'[p].updates[1]) /\ Exists(calls'[p].updates[1].id)) =>
              LET id == calls'[p].updates[1].id
                  q == calls'[p].updates[1].quantity
                  s == StockAtArrival(p)[id]
              IN
              IF calls[p].pc = "idle"
              THEN /\ products' = products
                   /\ s >= q => calls'[p].pc = "bulk_update"
                   /\ s < q =>
                         /\ calls'[p].pc = "done" /\ calls'[p].status = 400
                         /\ calls'[p].error = "Insufficient stock"
                         /\ calls'[p].available = s /\ calls'[p].requested = q
              ELSE /\ products' = [StockAtArrival(p) EXCEPT ![id] = s - q]
                   /\ calls'[p].pc = "done" /\ calls'[p].success
                   /\ calls'[p].status = 200
      ]_vars

\* C18 witness: with 2 left of product 1, a decrement of 3 was refused with
\* available 2, requested 3.
C18_Witness ==
    \E p \in Slots :
        /\ calls[p].pc = "done" /\ calls[p].op = "bulk" /\ calls[p].status = 400
        /\ calls[p].updates = <<[id |-> 1, quantity |-> 3, type |-> "number"]>>
        /\ calls[p].available = 2 /\ calls[p].requested = 3
        /\ products[1] = 2

\* C19: when a bulk-stock request is answered 400 for insufficient stock,
\* every product has the stock it had when the request arrived.
C19_BatchAllOrNothing ==
    [][ \A p \in Slots :
           (Returns(p, "bulk") /\ calls'[p].error = "Insufficient stock") =>
              products' = StockAtArrival(p)
      ]_vars

\* The messages of the validation errors of the stock endpoints.
ValidationErrors ==
    {"Updates field is required", "Updates must be an array",
     "Each update must have id and quantity", "Items array is required",
     "Each item must have id and quantity"}

\* C20: when a bulk-stock or restore-stock request is answered with a
\* validation error (400) or a not-found error (404), every product has the
\* stock it had when the request arrived.
C20_ErrorsBeforeMutation ==
    [][ \A p \in Slots :
           (/\ Returns(p, "bulk") \/ Returns(p, "restore")
            /\ \/ calls'[p].status = 400 /\ calls'[p].error \in ValidationErrors
               \/ calls'[p].status = 404) =>
              products' = StockAtArrival(p)
      ]_vars

----------------------------------------------------------------------------
\* C21: in every reachable state, under any interleaving of bulk-stock,
\* restore-stock and direct stock sets, every product's stockQuantity is an
\* integer that is not negative; two overlapping decrements never take more
\* than was there.
C21_StockNeverNegative ==
    \A id \in DOMAIN products : products[id] \in Nat

\* The quantity of product id among the lines of an order, from line i on.
RECURSIVE QuantityFrom(_, _, _)
QuantityFrom(itemsordered, id, i) ==
    IF i > Len(itemsordered) THEN 0
    ELSE (IF itemsordered[i].item_id = id
          THEN itemsordered[i].amount_per_item ELSE 0)
         + QuantityFrom(itemsordered, id, i + 1)

\* The quantity of product id held by a set of orders.
RECURSIVE HeldBy(_, _)
HeldBy(docs, id) ==
    IF docs = {} THEN 0
    ELSE LET d == CHOOSE d \in docs : TRUE
         IN QuantityFrom(d.itemsordered, id, 1) + HeldBy(docs \ {d}, id)

\* The orders that are neither denied nor cancelled.
LiveOrders ==
    UNION {orders[c] : c \in Collections \ {DeniedOrders, CancelledOrders}}

----------------------------------------------------------------------------
\* C22: whenever no request is being served (after any completed checkout,
\* move to Denied or approved cancellation), every product's stock is its
\* initial stock less the quantities of it held in live orders: creating an
\* order lowers the stock, denying or cancelling it adds the quantity back.
C22_StockReconcilesWithOrders ==
    Quiet => \A id \in DOMAIN products :
                products[id] = MaxStock - HeldBy(LiveOrders, id)

----------------------------------------------------------------------------
\* C23: a reserve-stock request leaves every product's stock unchanged.  When
\* it is answered with success, exactly one record has been added to
\* StockReservations: it carries the reservationId and the items of the
\* request, is active, and expires expiresInMinutes after it was created, 15
\* minutes when the request names none; the response names the same
\* reservationId and expiry.  A request whose items are missing or not an
\* array, or whose reservationId is missing, is answered 400 and adds no
\* record; every other request is answered with success.
C23_ReserveInsertsOneHold ==
    [][ \A p \in Slots : Returns(p, "reserve") =>
          LET done == calls'[p]
              minutes == IF done.expiresInMinutes.type = "undefined" THEN 15
                         ELSE done.expiresInMinutes.value
          IN
          /\ products' = products
          /\ done.success <=> (done.bodyType = "array" /\ done.reservationId # "")
          /\ ~done.success =>
                done.status = 400 /\ stockReservations' = stockReservations
          /\ done.success =>
                \E r \in stockReservations' \ stockReservations :
                    /\ stockReservations' = stockReservations \cup {r}
                    /\ r.reservationId = done.reservationId
                    /\ r.items = done.updates
                    /\ r.status = "active"
                    /\ r.expiresAt = r.createdAt + (minutes * 60000)
                    /\ done.expiresAt = r.expiresAt
      ]_vars

\* C23 witness: a request that named no expiresInMinutes was answered with
\* success, the one record there is expires 15 minutes (900000 ms) after it
\* was created, and no product's stock has changed since the request arrived.
C23_Witness ==
    \E p \in Slots, r \in stockReservations :
        /\ calls[p].pc = "done" /\ calls[p].op = "reserve" /\ calls[p].success
        /\ calls[p].expiresInMinutes.type = "undefined"
        /\ stockReservations = {r}
        /\ r.reservationId = "r1" /\ r.items = calls[p].updates
        /\ r.expiresAt - r.createdAt = 900000
        /\ products = [id \in ProductIds |-> MaxStock]

\* The stock a restore-stock request should leave: every product that exists
\* raised by the quantities the items name for it, from item i on.
RECURSIVE Restored(_, _, _)
Restored(stock, items, i) ==
    IF i > Len(items) THEN stock
    ELSE IF items[i].id \in DOMAIN stock
    THEN Restored([stock EXCEPT ![items[i].id] = @ + items[i].quantity],
                  items, i + 1)
    ELSE Restored(stock, items, i + 1)

\* Slot p answers a restore-stock request with success while the response of
\* reservation q for the same items is still waiting, and the stock when the
\* restore arrived was the stock when the reservation was made.
RestoresReservation(p, q) ==
    /\ Returns(p, "restore") /\ calls'[p].success
    /\ q # p /\ calls[q].pc = "done" /\ calls[q].op = "reserve"
    /\ calls[q].success
    /\ calls[q].updates = calls'[p].updates
    /\ calls[q].stockBefore = StockAtArrival(p)

----------------------------------------------------------------------------
\* C24: a reserve-stock request followed by a restore-stock request with the
\* same items, with no other change of stock between them, leaves every
\* listed product with the stock it had before the reservation.
C24_ReserveThenRestoreRoundTrip ==
    [][ \A p, q \in Slots :
           RestoresReservation(p, q) => products' = calls[q].stockBefore
      ]_vars

\* Every item of a request is well formed.
WellFormed(items) == \A k \in 1..Len(items) : Valid(items[k])

\* Product id exists and has at least quantity in stock.
Covered(stock, item) ==
    item.id \in DOMAIN stock /\ stock[item.id] >= item.quantity

----------------------------------------------------------------------------
\* C25: validate-stock is read-only: no step of it changes a product, a
\* reservation or an order.  Its response is determined by the items and the
\* stock alone, so two calls with the same items and no change of stock in
\* between return the same: one entry per item, in order, naming the
\* requested quantity, the available stock (0 for a product that does not
\* exist) and valid exactly when the product exists with stock >= the
\* requested quantity; allValid is true exactly when every item is valid.  A
\* missing product does not abort: every request whose items are well formed
\* is answered with success.
C25_ValidateReadOnly ==
    [][ \A p \in Slots :
          /\ (calls'[p] # calls[p] /\ calls'[p].op = "validate") =>
                UNCHANGED <<products, stockReservations, orders, nextId>>
          /\ Returns(p, "validate") =>
                LET done == calls'[p]
                    items == done.updates
                    stock == StockAtArrival(p)
                    results == done.validationResults
                IN
                /\ (done.error # "Items array is required" /\ WellFormed(items))
                      => done.success /\ done.status = 200
                /\ done.success =>
                      /\ Len(results) = Len(items)
                      /\ \A k \in 1..Len(items) :
                            /\ results[k].id = items[k].id
                            /\ results[k].requestedQuantity = items[k].quantity
                            /\ results[k].availableStock =
                                  IF items[k].id \in DOMAIN stock
                                  THEN stock[items[k].id] ELSE 0
                            /\ results[k].valid <=> Covered(stock, items[k])
                      /\ done.allValid <=>
                            \A k \in 1..Len(items) : Covered(stock, items[k])
      ]_vars

\* C25 witness: a request for 1 of a product that does not exist and 2 of
\* product 1, which has exactly 2, was answered: the first entry is invalid
\* with available stock 0, the second is valid, allValid is false.
C25_Witness ==
    \E p \in Slots :
        /\ calls[p].pc = "done" /\ calls[p].op = "validate" /\ calls[p].success
        /\ calls[p].updates =
              <<[id |-> NumProducts + 1, quantity |-> 1, type |-> "number"],
                [id |-> 1, quantity |-> 2, type |-> "number"]>>
        /\ products[1] = 2
        /\ Len(calls[p].validationResults) = 2
        /\ ~calls[p].validationResults[1].valid
        /\ calls[p].validationResults[1].availableStock = 0
        /\ calls[p].validationResults[2].valid
        /\ ~calls[p].allValid

----------------------------------------------------------------------------
\* C26: a restore-stock request whose items are well formed is answered with
\* success whether or not the listed products exist, and a request answered
\* with success has added exactly the listed quantity to every listed product
\* that exists and changed no other product.
C26_RestoreBestEffort ==
    [][ \A p \in Slots : Returns(p, "restore") =>
          LET done == calls'[p] IN
          /\ (done.error # "Items array is required" /\ WellFormed(done.updates))
                => done.success /\ done.status = 200
          /\ done.success =>
                products' = Restored(StockAtArrival(p), done.updates, 1)
      ]_vars

\* C26 witness: a request to restore 1 of a product that does not exist and
\* 2 of product 1 was answered with success, and product 1, the only product
\* with stock, has 2.
C26_Witness ==
    \E p \in Slots :
        /\ calls[p].pc = "done" /\ calls[p].op = "restore" /\ calls[p].success
        /\ calls[p].updates =
              <<[id |-> NumProducts + 1, quantity |-> 1, type |-> "number"],
                [id |-> 1, quantity |-> 2, type |-> "number"]>>
        /\ products = [id \in ProductIds |-> IF id = 1 THEN 2 ELSE 0]

\* The status a partition stands for.
StatusOf(c) ==
    CASE c = PendingOrders -> "pending"
      [] c = AcceptedOrders -> "approved"
      [] c = DeliveredOrders -> "delivered"
      [] c = DeniedOrders -> "denied"
      [] c = ReturnedOrders -> "returned"
      [] c = CancelledOrders -> "cancelled"
      [] OTHER -> "completed"

\* The fields of an order document a move may write.
MoveWritten ==
    {"_id", "status", "displayStatus", "updatedAt", "lastModifiedBy",
     "approvedAt", "deliveredAt", "deniedAt", "denialReason", "returnedAt",
     "returnReason", "returnImage", "returnProcessedBy"}

----------------------------------------------------------------------------
\* C27: the record a move inserts into the target partition carries the
\* status and displayStatus of that partition (pending, approved, delivered,
\* denied, returned) and its stamp: approvedAt, deliveredAt, deniedAt with
\* denialReason when given, returnedAt with returnReason and returnImage
\* when given; updatedAt and lastModifiedBy are stamped; every other field
\* but the identifier is the source order's.
C27_MoveRecordCarriesTargetStatus ==
    [][ \A p \in Slots :
          (calls[p].pc = "move_insert" /\ calls'[p].pc = "move_delete") =>
            LET c == calls[p]
                inserted == {d \in orders'[c.target] : d._id = calls'[p].insertedId}
            IN
            \A d \in inserted :
                /\ d.status = StatusOf(c.target)
                /\ d.displayStatus = StatusOf(c.target)
                /\ d.updatedAt = Date /\ d.lastModifiedBy = "staff"
                /\ c.target = AcceptedOrders => d.approvedAt = Date
                /\ c.target = DeliveredOrders => d.deliveredAt = Date
                /\ c.target = DeniedOrders =>
                      /\ d.deniedAt = Date
                      /\ c.denialReason # "" => d.denialReason = c.denialReason
                /\ c.target = ReturnedOrders =>
                      /\ d.returnedAt = Date
                      /\ c.returnReason # "" => d.returnReason = c.returnReason
                      /\ c.returnImage # "" => d.returnImage = c.returnImage
                /\ \A f \in DOMAIN NoDoc \ MoveWritten : d[f] = c.order[f]
      ]_vars

\* The names the move maps to a partition.
KnownNames == {"orders", "pending", "accepted", "delivered", "denied", "returned"}

\* The partition a known name stands for.
Named(name) ==
    CASE name \in {"orders", "pending"} -> PendingOrders
      [] name = "accepted" -> AcceptedOrders
      [] name = "delivered" -> DeliveredOrders
      [] name = "denied" -> DeniedOrders
      [] OTHER -> ReturnedOrders

\* Everything a move could write to.
AllStores ==
    <<orders, cancellationRequests, staffNotifications, returnRequests,
      returnedRecords, userNotifications, products, stockReservations>>

----------------------------------------------------------------------------
\* C28: whenever a request may arrive, a move request that leaves out
\* orderId, operation, fromCollection or toCollection, or names a partition
\* the move does not know, is turned away with 400; one whose orderId is not
\* in the partition fromCollection names is turned away with 404, also when
\* another partition holds the order; every other request goes on.  A move
\* that is answered by its first step is answered 400 or 404 and has changed
\* no partition and nothing else.
C28_RejectedMoveChangesNothing ==
    /\ [](Quiet => \A body \in MoveBodies :
            LET missing == \/ body.orderId = 0 \/ body.operation = ""
                           \/ body.fromCollection = "" \/ body.toCollection = ""
                unknown == \/ body.fromCollection \notin KnownNames
                           \/ body.toCollection \notin KnownNames
                absent == \A d \in orders[Named(body.fromCollection)] :
                              d._id # body.orderId
            IN MoveCheck(body) = IF missing \/ unknown THEN 400
                                 ELSE IF absent THEN 404 ELSE 200)
    /\ [][ \A p \in Slots :
              (Returns(p, "move") /\ calls[p].pc = "idle") =>
                 /\ calls'[p].status \in {400, 404} /\ ~calls'[p].success
                 /\ UNCHANGED AllStores
         ]_vars

\* C28 witness: the only order there is sits in PendingOrders under _id 1,
\* and a move was just answered 404: the request named order 1 and a
\* partition other than Pending.
C28_Witness ==
    \E p \in Slots :
        /\ calls[p].pc = "done" /\ calls[p].op = "move" /\ calls[p].status = 404
        /\ nextId = 2
        /\ \E d \in orders[PendingOrders] : d._id = 1
        /\ \A c \in Collections \ {PendingOrders} : orders[c] = {}

\* The partitions no order leaves.
Terminal == {DeliveredOrders, DeniedOrders, CancelledOrders, WalkInOrders}

----------------------------------------------------------------------------
\* C29: no step of a move takes an order out of a terminal partition
\* (Delivered, Denied, Cancelled, WalkIn): an order held by one of them is
\* still held by it after the step.
C29_TerminalOrdersStay ==
    [][ \A c \in Terminal : \A d \in orders[c] :
           \E e \in orders'[c] : e.orderNumber = d.orderNumber
      ]_vars

\* The view lists the order document d.
Listed(view, d) == \E k \in 1..Len(view) : view[k]._id = d._id

----------------------------------------------------------------------------
\* C30: the view GET /api/orders/:userId returns for a user lists every order
\* of that user held by any partition (Pending, Accepted, Delivered, Denied,
\* Returned, Cancelled, WalkIn), and its entries are sorted newest first.
C30_ViewMergesAllPartitions ==
    [][ \A p \in Slots : (Returns(p, "view") /\ calls'[p].success) =>
          LET view == calls'[p].orders IN
          /\ \A c \in Collections : \A d \in orders[c] :
                d.userId = calls'[p].userId => Listed(view, d)
          /\ \A j, k \in 1..Len(view) : j < k => view[j].date >= view[k].date
      ]_vars

\* The partitions the order view reads.
Viewed == {PendingOrders, AcceptedOrders, DeliveredOrders, WalkInOrders}

\* One of the keys the view was asked with matches the order d.
KeyMatches(d, q) ==
    \/ /\ q.userId # "by-email"
       /\ d.userId \in {String(q.userId), Number(q.userId)} \ {Null}
    \/ q.email # "" /\ d.email = q.email
    \/ q.fullName # "" /\ d.fullName = q.fullName

\* The view was asked with no key at all.
NoKey(q) == q.userId = "by-email" /\ q.email = "" /\ q.fullName = ""

----------------------------------------------------------------------------
\* C31: the order view lists an order of the partitions it reads exactly
\* when one of the supplied keys matches it: the userId in its string or its
\* numeric form, the email, or the fullName; asked with no key (by-email and
\* neither email nor fullName) it lists the orders of every owner.
C31_OwnerQueryMatchesAnyKey ==
    [][ \A p \in Slots : (Returns(p, "view") /\ calls'[p].success) =>
          LET q == calls'[p] IN
          \A c \in Viewed : \A d \in orders[c] :
              Listed(q.orders, d) <=> (NoKey(q) \/ KeyMatches(d, q))
      ]_vars

\* C31 witness: asked for user 7 with no email and no name, the view lists
\* the order whose userId is the string "7" and the order whose userId is
\* the number 7, and nothing else, while a third order is pending.
C31_Witness ==
    \E p \in Slots, d1, d2, d3 \in orders[PendingOrders] :
        /\ calls[p].pc = "done" /\ calls[p].op = "view" /\ calls[p].success
        /\ calls[p].userId = "7" /\ calls[p].email = "" /\ calls[p].fullName = ""
        /\ d1.userId = "7" /\ d2.userId = "#7" /\ d3.userId = "u1"
        /\ Listed(calls[p].orders, d1) /\ Listed(calls[p].orders, d2)
        /\ Len(calls[p].orders) = 2

\* The _ids each collection holds.
Membership(o) == [c \in Collections |-> {d._id : d \in o[c]}]

\* One of the three updates of a pending order, for the order id.
PendingUpdate(p, id) ==
    \/ \E v \in BOOLEAN : VerifyPayment(p, id, v)
    \/ \E s \in DeskStatuses : UpdateStatus(p, id, s)
    \/ UpdatePayment(p, id, "gcash-ref")

----------------------------------------------------------------------------
DocsOf(k) ==
    {cd \in Collections \X (0..MaxId) :
        \E d \in orders[cd[1]] : d._id = cd[2] /\ d.orderNumber = k}

PendingReviewOf(k) ==
    {r \in cancellationRequests :
        r.orderNumber = k /\ r.status = "pending_review"}

BothReturned ==
    /\ \E p \in Slots : calls[p].pc = "done" /\ calls[p].op = "move"
    /\ \E p \in Slots : calls[p].pc = "done" /\ calls[p].op = "cancel"

----------------------------------------------------------------------------
\* C33: when a move and a cancel-request race for one order, after both have
\* returned the order is either one document in one partition with no
\* pending request, or one pending_review request and in no partition; and at
\* every moment at most one of the two has reported success.
C33_MoveOrCancelWins ==
    /\ Cardinality({p \in Slots : calls[p].pc = "done" /\ calls[p].success}) <= 1
    /\ BothReturned =>
          \/ Cardinality(DocsOf(1)) = 1 /\ PendingReviewOf(1) = {}
          \/ DocsOf(1) = {} /\ Cardinality(PendingReviewOf(1)) = 1

\* C33 witness: both read the order in PendingOrders; the cancel-request
\* won and reported success, the move rolled its copy back and failed.
C33_Witness ==
    \E p, q \in Slots :
        /\ calls[p].pc = "done" /\ calls[p].op = "cancel" /\ calls[p].success
        /\ calls[q].pc = "done" /\ calls[q].op = "move" /\ calls[q].status = 500
        /\ DocsOf(1) = {} /\ Cardinality(PendingReviewOf(1)) = 1

\* The cancellation requests that carry order k.
RequestsOf(k) == {r \in cancellationRequests : r.orderNumber = k}

\* Order k is held somewhere: in a partition or in a cancellation request.
Held(k) == DocsOf(k) # {} \/ RequestsOf(k) # {}

----------------------------------------------------------------------------
\* C34: a move and a cancel-request write the new record before they delete
\* the old one, so an order that is held in a partition or in a cancellation
\* request is still held in one of them after every step of every handler,
\* the rollbacks included.
C34_OrderAlwaysHeld ==
    [][ \A k \in 1..MaxId : Held(k) => Held(k)' ]_vars

\* C34 witness: a move has lost the source document to a cancel-request and
\* is about to roll back its copy, which is the only document of the order;
\* the order is held by the pending request.
C34_Witness ==
    \E p \in Slots :
        /\ calls[p].pc = "move_rollback"
        /\ DocsOf(1) = {<<calls[p].target, calls[p].insertedId>>}
        /\ PendingReviewOf(1) # {}

\* The decisions that have returned.
Decided == {p \in Slots : calls[p].pc = "done" /\ calls[p].op = "return_decide"}

----------------------------------------------------------------------------
\* C35: a return request is decided at most once.  Of the decisions of one
\* return request at most one reports success; once all have returned, and
\* one of them had read the request, exactly one archived record remains and
\* the request is gone; and a decision that arrives after the request was
\* archived and removed answers 404 and adds no archived record and no
\* notification.
C35_ReturnDecidedOnce ==
    /\ [](/\ Cardinality({p \in Decided : calls[p].success}) <= 1
          /\ (Decided = Slots /\ \E p \in Slots : calls[p].status # 404) =>
                /\ Cardinality(returnedRecords) = 1
                /\ returnRequests = {}
                /\ Cardinality({p \in Decided : calls[p].success}) = 1)
    /\ [][ \A p \in Slots :
             (/\ calls[p].pc = "idle" /\ calls'[p].op = "return_decide"
              /\ returnedRecords # {} /\ returnRequests = {}) =>
                /\ calls'[p].pc = "done" /\ calls'[p].status = 404
                /\ ~calls'[p].success
                /\ UNCHANGED <<returnedRecords, returnRequests,
                               staffNotifications, userNotifications>>
       ]_vars

\* C35 witness: two decisions read the same return request; one archived
\* it and reported success, the other lost the delete, took its archived
\* record back and answered 500.
C35_Witness ==
    \E p, q \in Slots :
        /\ calls[p].pc = "done" /\ calls[p].op = "return_decide"
        /\ calls[p].success
        /\ calls[q].pc = "done" /\ calls[q].op = "return_decide"
        /\ calls[q].status = 500
        /\ Cardinality(returnedRecords) = 1 /\ returnRequests = {}

\* Slot p has just written a move's copy into one of the named targets.
MovedTo(p, names) ==
    /\ calls[p].pc = "move_insert" /\ calls'[p].pc = "move_delete"
    /\ calls[p].toCollection \in names

\* The documents a cancel-request looks at.
Live(o) == o[PendingOrders] \cup o[AcceptedOrders]

\* The documents this step wrote that a cancel-request would accept and that
\* are a pending order whose status was "confirmed", updated where it is, or
\* the copy a move of it has written.
CancellableAgain ==
    {e \in Live(orders') \ Live(orders) :
        /\ Cancellable(e)
        /\ \E d \in orders[PendingOrders] :
              /\ d.status = "confirmed"
              /\ \/ e._id = d._id
                 \/ \E p \in Slots : /\ MovedTo(p, CollectionArgs)
                                      /\ calls[p].orderId = d._id
                                      /\ e._id = calls'[p].insertedId}

\* A cancel-request naming a pending order whose status is "confirmed" is
\* answered 400 and writes nothing.
ConfirmedIsRejected ==
    \A p \in Slots, id \in SentIds :
        (/\ Returns(p, "cancel")
         /\ FindOne(PendingOrders, id).status = "confirmed"
         /\ CancelFindPending(p, id, "changed my mind")) =>
            /\ calls'[p].status = 400 /\ ~calls'[p].success
            /\ UNCHANGED <<orders, cancellationRequests, staffNotifications>>

----------------------------------------------------------------------------
\* C36 as stated: while a pending order has the status "confirmed" every
\* cancel-request on it is answered 400 and nothing is written, and the
\* order becomes cancellable again only by a move to AcceptedOrders or by a
\* status update to pending or active.
C36_AsStated ==
    [][ /\ ConfirmedIsRejected
        /\ \A e \in CancellableAgain : \E p \in Slots :
              \/ MovedTo(p, {"accepted"})
              \/ Returns(p, "status") /\ e.status \in {"pending", "active"}
      ]_vars

\* C36: while a pending order has the status "confirmed" every
\* cancel-request on it is answered 400 and nothing is written; the order
\* becomes cancellable again only by a move to 'accepted' or to 'pending',
\* which both set a cancellable status, or by a status update to a
\* cancellable status.
C36_ConfirmedNotCancellable ==
    [][ /\ ConfirmedIsRejected
        /\ \A e \in CancellableAgain : \E p \in Slots :
              \/ MovedTo(p, {"accepted", "pending"})
              \/ Returns(p, "status")
      ]_vars

\* C36 witness: a cancel-request was answered 400 while the only order, whose
\* payment had been verified, is pending with the status "confirmed" after
\* the staff moved it to 'orders', which kept that status.
C36_Witness ==
    \E p \in Slots :
        /\ calls[p].pc = "done" /\ calls[p].op = "cancel" /\ calls[p].status = 400
        /\ cancellationRequests = {}
        /\ \E d \in orders[PendingOrders] :
              /\ d.status = "confirmed" /\ d.lastModifiedBy = "staff"
              /\ orders[PendingOrders] = {d}

----------------------------------------------------------------------------
EntriesOf(view, k) == {i \in 1..Len(view) : view[i].orderNumber = k}

\* What the view shows for a cancellation request with the stored status.
ShownAs(status) ==
    CASE status = "pending_review" -> "cancel_requested"
      [] status = "approved" -> "cancel_approved"
      [] OTHER -> "cancel_rejected"

----------------------------------------------------------------------------
\* C38: once a cancel-request has stored its request and removed the order,
\* the owner's view of their orders lists the order exactly once, as the
\* cancellation entry, with the status "cancel_requested" and
\* hasPendingCancellation true while the request is pending review, and with
\* "cancel_approved" or "cancel_rejected" and hasPendingCancellation false
\* after the staff's decision.
C38_ViewShowsCancellation ==
    [][ \A p \in Slots : (Returns(p, "view") /\ calls'[p].success) =>
          LET q == calls'[p] IN
          \A r \in cancellationRequests :
              (/\ q.userId = r.userIdString
               /\ r.status \in {"pending_review", "approved", "rejected"}) =>
                 /\ Cardinality(EntriesOf(q.orders, r.orderNumber)) = 1
                 /\ \A i \in EntriesOf(q.orders, r.orderNumber) :
                       /\ q.orders[i].collection = "cancellation"
                       /\ q.orders[i]._id = r._id
                       /\ q.orders[i].status = ShownAs(r.status)
                       /\ q.orders[i].hasPendingCancellation
                             <=> r.status = "pending_review"
      ]_vars

\* C38 witness: the customer whose userId is the number 7 asked with "7"
\* and was shown two entries: an order still pending, and the order whose
\* cancellation the staff approved, as "cancel_approved".
C38_Witness ==
    \E p \in Slots, r \in cancellationRequests :
        /\ calls[p].pc = "done" /\ calls[p].op = "view" /\ calls[p].success
        /\ calls[p].userId = "7" /\ r.userIdNumber = "#7" /\ r.userId = "#7"
        /\ r.status = "approved"
        /\ Len(calls[p].orders) = 2
        /\ \E i \in 1..2 : /\ calls[p].orders[i]._id = r._id
                            /\ calls[p].orders[i].status = "cancel_approved"
                            /\ ~calls[p].orders[i].hasPendingCancellation

\* The default addresses a lookup by userId or by email returns.
DefaultsByUserId(u) == {a \in userAddresses : a.userId = u /\ a.isDefault}
DefaultsByEmail(e) == {a \in userAddresses : a.email = e /\ a.isDefault}

----------------------------------------------------------------------------
\* C39: between requests, the addresses of a user, looked up by userId or
\* by email, hold at most one default address, whatever addresses were
\* saved, under a userId, an email or both, and whichever were made the
\* default.
C39_AtMostOneDefault ==
    Quiet =>
      /\ \A u \in {"u1", "#7"} : Cardinality(DefaultsByUserId(u)) <= 1
      /\ \A e \in {"a@x"} : Cardinality(DefaultsByEmail(e)) <= 1

\* The verify-code calls that answered with success.
Verified == {p \in Slots : /\ calls[p].pc = "done" /\ calls[p].op = "verify_code"
                           /\ calls[p].success}

----------------------------------------------------------------------------
\* C40: a verification code is single-use and attempt-limited.  However the
\* verify-code calls interleave, no two of them verify the same code entry;
\* a call verifies an entry only while the entry has fewer than maxAttempts
\* (5) wrong guesses and is not used; and a request for a new code first
\* removes every code its email has.
C40_CodeSingleUse ==
    /\ [](\A p, q \in Verified :
             calls[p].codeEntry._id = calls[q].codeEntry._id => p = q)
    /\ [][ \A p \in Slots :
             /\ (Returns(p, "verify_code") /\ calls'[p].success) =>
                   \A e \in authCodes :
                      e._id = calls'[p].codeEntry._id =>
                         e.attempts < MaxAttempts /\ ~e.used
             /\ (calls[p].pc = "idle" /\ calls'[p].pc = "code_insert") =>
                   \A e \in authCodes' : e.email # calls'[p].codeEntry.email
       ]_vars

====================================================================
